---- MODULE Spec2Model ----
(***************************************************************************)
(* Model of the reprox reverse proxy: the host table of tProxyConfig, the  *)
(* configuration loader loadConfigFile, the watcher WatchConfigFile and    *)
(* the dispatcher TProxyHandler.ServeHTTP with its lazily built pipelines. *)
(***************************************************************************)
EXTENDS Integers, Sequences, FiniteSets, TLC

\* ------------------------------------------------------------------------
\* Bounds of the model

\* number of request goroutines that may be inside ServeHTTP at once
NumReqs == 2
\* the file's modification time is a counter 0..MaxMTime
MaxMTime == 2
\* at most this many pipelines are built in one run
MaxBuilds == 2

Reqs == 1..NumReqs

\* ------------------------------------------------------------------------
\* Host names are sequences of characters, so that strings.ToLower() is
\* computed character by character.

\* mutant: the host is compared as it was sent
LowerChar_same(c) == c

LowerChar(c) ==
    CASE c = "E" -> "e"
      [] c = "X" -> "x"
      [] c = "T" -> "t"
      [] OTHER   -> c

ToLower(s) == [i \in DOMAIN s |-> LowerChar(s[i])]

hEx == <<"e", "x">>      \* "example.com"
hTe == <<"t", "e">>      \* "test.com"

\* Host headers that requests carry
RequestHosts == {hEx, <<"E", "x">>, <<"E", "X">>, hTe}

\* the Host header of the requests that race with reloads
RacingHosts == {<<"E", "x">>}

\* ------------------------------------------------------------------------
\* url.Parse() on the raw target strings used in the configuration files:
\* the scheme is cut at the first colon and lower-cased, a string that
\* starts with a colon has no scheme and is an error.

NilURL == [scheme |-> "<nil>", host |-> "<nil>"]

UrlParse(raw) ==
    CASE raw = "http://b1:80"   -> [err |-> FALSE, scheme |-> "http",    host |-> "b1:80"]
      [] raw = "https://b2:443" -> [err |-> FALSE, scheme |-> "https",   host |-> "b2:443"]
      [] raw = "HTTP://b3:80"   -> [err |-> FALSE, scheme |-> "http",    host |-> "b3:80"]
      [] raw = "http://b3:80"   -> [err |-> FALSE, scheme |-> "http",    host |-> "b3:80"]
      [] raw = "ftp://x"        -> [err |-> FALSE, scheme |-> "ftp",     host |-> "x"]
      [] raw = "invalid:url"    -> [err |-> FALSE, scheme |-> "invalid", host |-> ""]
      [] raw = "invalid://url"  -> [err |-> FALSE, scheme |-> "invalid", host |-> "url"]
      [] raw = "://bad"         -> [err |-> TRUE,  scheme |-> "",        host |-> ""]
      [] OTHER                  -> [err |-> FALSE, scheme |-> "",        host |-> ""]

\* ------------------------------------------------------------------------
\* Contents of the configuration file (the JSON text that json.Unmarshal
\* reads into tConfigFile): json = FALSE is a file that is not JSON; hosts is
\* the "hosts" object, the empty function when the field is absent or empty;
\* an optional string is "" when absent; an optional number is the sequence
\* of its one integer, Absent when the field is not in the file.

NoHosts == [k \in {} |-> ""]

Absent == <<>>

CfgWith(h, aLog, aCert, aMax, aWin) ==
    [json |-> TRUE, hosts |-> h, access_log |-> aLog, error_log |-> "",
     tls_cert |-> aCert, tls_key |-> "", max_requests |-> aMax,
     window_size |-> aWin]

Cfg(h) == CfgWith(h, "", "", Absent, Absent)

cfgA == Cfg([k \in {hEx, hTe} |-> IF k = hEx THEN "http://b1:80" ELSE "https://b2:443"])
cfgB == Cfg([k \in {hTe} |-> "HTTP://b3:80"])
cfgC == Cfg([k \in {hEx} |-> "https://b2:443"])
cfgFtp == Cfg([k \in {hEx, hTe} |-> IF k = hEx THEN "HTTP://b3:80" ELSE "ftp://x"])
cfgInvalid == Cfg([k \in {hEx, hTe} |-> IF k = hEx THEN "invalid:url" ELSE "invalid://url"])
cfgBadURL == Cfg([k \in {hEx, hTe} |-> IF k = hEx THEN "://bad" ELSE "https://b2:443"])
cfgEmpty == Cfg(NoHosts)
cfgNotJSON == [Cfg(NoHosts) EXCEPT !.json = FALSE]

ValidContents == {cfgA, cfgB, cfgC}
BadContents == {cfgFtp, cfgInvalid, cfgBadURL, cfgEmpty, cfgNotJSON}
Contents == ValidContents \cup BadContents

\* the file contents written while requests race with reloads
RacingContents == {cfgA, cfgB, cfgEmpty}

\* ------------------------------------------------------------------------
\* Numbers. uint and time.Duration are 64 bits wide and time.Second is 10^9
\* ticks; the model keeps the wrap-around of both types with a width of
\* UintBits bits and Second ticks in a second.

UintBits == 12
UintMod == 2 ^ UintBits
Second == 10

\* the conversion to a signed integer of the same width
ToSigned(x) ==
    LET m == x % UintMod IN IF m >= UintMod \div 2 THEN m - UintMod ELSE m

\* time.Duration(w) * time.Second
Duration(w) == ToSigned(w * Second)

\* uint(d.Seconds()): the float is truncated towards zero; the result of
\* converting a float below -1 is implementation-dependent (zero on builds
\* that saturate, the wrapped value on the others)
UintOfSeconds(d) ==
    IF d >= 0 THEN {d \div Second}
    ELSE IF d > 0 - Second THEN {0}
    ELSE {0, (UintMod - ((0 - d) \div Second)) % UintMod}

\* the smallest window_size whose Duration wraps around to a positive value
WrapSeconds == UintMod \div Second + 1

DefaultMaxRequests == 100
DefaultWindowSize == 60

\* files that set the optional fields
cfgFull ==
    CfgWith(cfgA.hosts, "logs/a.log", "/etc//ssl/./x.pem", <<150>>, <<120>>)
cfgZeroMax == CfgWith(cfgC.hosts, "", "", <<0>>, Absent)
cfgNegMax == CfgWith(cfgC.hosts, "", "", <<0 - 1>>, <<120>>)
cfgWrap == CfgWith(cfgC.hosts, "", "", <<150>>, <<WrapSeconds>>)

\* every field set, and one of the two targets has a scheme that is refused
cfgFtpFull == CfgWith(cfgFtp.hosts, "logs/a.log", "/etc//ssl/./x.pem", <<150>>, <<120>>)

ScalarContents ==
    {cfgA, cfgB, cfgFull, cfgZeroMax, cfgNegMax, cfgWrap, cfgEmpty, cfgFtpFull}

\* absDir("", aFilename): "" stays "", an absolute path is cleaned, a
\* relative one is joined to the working directory
absDir(aFilename) ==
    CASE aFilename = ""                  -> ""
      [] aFilename = "logs/a.log"        -> "/cwd/logs/a.log"
      [] aFilename = "/etc//ssl/./x.pem" -> "/etc/ssl/x.pem"
      [] aFilename = "access.reprox.log" -> "/cwd/access.reprox.log"
      [] aFilename = "error.reprox.log"  -> "/cwd/error.reprox.log"
      [] OTHER                           -> aFilename

\* ------------------------------------------------------------------------
\* State

VARIABLES
    file,          \* the configuration file on disk: kind, content, mtime
    hostMappings,  \* tProxyConfig.hostMappings: host -> tHostConfig
    main,          \* main(): "start", "running" or "fatal"
    wpc,           \* WatchConfigFile: "init", "polling", "loading", "returned"
    prevModTime,   \* WatchConfigFile's remembered modification time
    modTime,       \* WatchConfigFile's modTime while an iteration uses it
    cancelled,     \* the watcher's context is done
    req,           \* the ServeHTTP calls in progress: position and locals
    nProxy,        \* number of pipelines built so far (instance ids)
    resp,          \* history: the ServeHTTP call that returned last
    installed,     \* history: host -> target of the last successful load
    lastLoad,      \* history: caller and error of the last loadConfigFile
    conf,          \* tProxyConfig's scalar settings
    result,        \* what LoadConfig returned: "none" yet, "nil" or "pc"
    spc,           \* SaveConfig: "idle", "created", "written", "closed", "chmodded"
    tmpFile,       \* the temporary file of SaveConfig
    configData,    \* SaveConfig's configData
    saved,         \* history: the last SaveConfig call that returned
    mu,            \* tProxyConfig's sync.RWMutex: its writer and its readers
    lpc,           \* loadConfigFile followed step by step: its position
    fconf,         \* loadConfigFile followed step by step: what it has read
    rd,            \* SaveConfig calls followed through the read-locked part
    origin,        \* history: the loads that assigned the table and the settings
    closedIdle,    \* history: transports whose CloseIdleConnections was called
    rewritten,     \* a director call: its target, the request before and after
    created,       \* createReverseProxy calls on one argument: argument, results
    limiter        \* the parameters main() gave to ratelimit.Wrap

saveVars == <<spc, tmpFile, configData, saved>>
lockVars == <<lpc, fconf, rd, origin>>
callVars == <<rewritten, created, limiter>>

vars == <<file, hostMappings, main, wpc, prevModTime, modTime, cancelled,
          req, nProxy, resp, installed, lastLoad, conf, result, saveVars,
          mu, lockVars, closedIdle, callVars>>

watchVars == <<wpc, prevModTime, modTime>>
reqVars == <<req, nProxy, resp>>

\* ------------------------------------------------------------------------
\* The sync.RWMutex embedded in tProxyConfig

\* the concurrent SaveConfig calls followed through their read-locked part
NumReaders == 2
\* goroutines calling createReverseProxy on one argument
NumCallers == 3
Readers == 1..NumReaders
Callers == 1..NumCallers

\* the goroutines that use the mutex: nobody, loadConfigFile, the SaveConfig
\* call of the save steps, SaveConfig call i, ServeHTTP call r
Nobody == <<"none", 0>>
Loader == <<"load", 0>>
Saver == <<"save", 0>>
Reader(i) == <<"save", i>>
Server(r) == <<"serve", r>>

\* nobody holds the mutex
NoLock == [writer |-> Nobody, readers |-> {}]

\* Lock() returns when there is neither a writer nor a reader
canLock(aMu) == aMu.writer = Nobody /\ aMu.readers = {}

\* RLock() returns when there is no writer
canRLock(aMu) == aMu.writer = Nobody

Lock(aMu, aWho) == [aMu EXCEPT !.writer = aWho]
Unlock(aMu) == [aMu EXCEPT !.writer = Nobody]
RLock(aMu, aWho) == [aMu EXCEPT !.readers = @ \cup {aWho}]
RUnlock(aMu, aWho) == [aMu EXCEPT !.readers = @ \ {aWho}]

\* ------------------------------------------------------------------------
\* tHostConfig and the pipelines (httputil.ReverseProxy instances)

\* no pipeline; a pipeline is an instance id, the target of its director and
\* the kind of its Transport
NilProxy == [id |-> 0, target |-> NilURL, transport |-> "nil"]

tHostConfig(aTarget, aProxy) == [target |-> aTarget, destProxy |-> aProxy]

EmptyMap == [k \in {} |-> tHostConfig(NilURL, NilProxy)]

\* the host -> target mapping a table holds
Mapping(aTable) == [k \in DOMAIN aTable |-> aTable[k].target]

\* ------------------------------------------------------------------------
\* loadConfigFile

\* mutant: any scheme passes the check
SchemeAllowed_any(aScheme) == aScheme # ""

SchemeAllowed(aScheme) == aScheme \in {"http", "https"}

\* mutant: the check for missing host mappings is left out
HostsMissing_never(aHosts) == FALSE

HostsMissing(aHosts) == Cardinality(DOMAIN aHosts) = 0

\* whether a JSON number fits the uint field it is read into
UintOK(aNumber) ==
    aNumber = Absent \/ (aNumber[1] >= 0 /\ aNumber[1] < UintMod)

\* the uint field after json.Unmarshal, 0 when the field is absent
UintField(aNumber) ==
    IF aNumber # Absent /\ UintOK(aNumber) THEN aNumber[1] ELSE 0

\* json.Unmarshal(configData, &fconf)
Unmarshal(aContent) ==
    [err         |-> \/ ~aContent.json
                     \/ ~UintOK(aContent.max_requests)
                     \/ ~UintOK(aContent.window_size),
     Hosts       |-> aContent.hosts,
     AccessLog   |-> aContent.access_log,
     ErrorLog    |-> aContent.error_log,
     TLSCert     |-> aContent.tls_cert,
     TLSKey      |-> aContent.tls_key,
     MaxRequests |-> UintField(aContent.max_requests),
     WindowSize  |-> UintField(aContent.window_size)]

\* the error loadConfigFile returns for the file as it is on disk,
\* "nil" when it returns none
loadError(f) ==
    IF f.kind = "missing" THEN "stat"
    ELSE IF f.kind = "dir" THEN "isdir"
    ELSE IF Unmarshal(f.content).err THEN "parse"
    ELSE IF HostsMissing(f.content.hosts) THEN "nohosts"
    ELSE IF \E k \in DOMAIN f.content.hosts : UrlParse(f.content.hosts[k]).err
         THEN "url"
    ELSE IF \E k \in DOMAIN f.content.hosts :
                ~SchemeAllowed(UrlParse(f.content.hosts[k]).scheme)
         THEN "scheme"
    ELSE "nil"

\* the table built in the loop over fconf.Hosts
tempMapping(aHosts) ==
    [k \in DOMAIN aHosts |->
        tHostConfig([scheme |-> UrlParse(aHosts[k]).scheme,
                     host   |-> UrlParse(aHosts[k]).host], NilProxy)]

\* mutant: the loop writes into pc.hostMappings entry by entry, so the
\* entries before a bad one are installed
loadConfigFile_inPlace(aTable, f) ==
    IF loadError(f) = "nil" THEN tempMapping(f.content.hosts)
    ELSE IF loadError(f) \in {"url", "scheme"}
    THEN LET good == {k \in DOMAIN f.content.hosts :
                        /\ ~UrlParse(f.content.hosts[k]).err
                        /\ SchemeAllowed(UrlParse(f.content.hosts[k]).scheme)}
         IN [k \in DOMAIN aTable \cup good |->
                IF k \in good THEN tempMapping(f.content.hosts)[k] ELSE aTable[k]]
    ELSE aTable

\* pc.hostMappings after loadConfigFile ran on table aTable and file f
loadConfigFile(aTable, f) ==
    IF loadError(f) = "nil" THEN tempMapping(f.content.hosts) ELSE aTable

\* the scalar settings of a tProxyConfig just allocated
ZeroConf ==
    [AccessLog |-> "", ErrorLog |-> "", TLSCertFile |-> "", TLSKeyFile |-> "",
     MaxRequests |-> 0, WindowSize |-> 0]

\* a string field, or its default when the file leaves it empty
stringOrDefault(aValue, aDefault) == IF aValue = "" THEN aDefault ELSE aValue

\* a number field, or its default when it is not positive
numberOrDefault(aValue, aDefault) == IF aValue <= 0 THEN aDefault ELSE aValue

\* the scalar settings loadConfigFile assigns from fconf
scalars(aFconf) ==
    [AccessLog   |-> absDir(stringOrDefault(aFconf.AccessLog, "access.reprox.log")),
     ErrorLog    |-> absDir(stringOrDefault(aFconf.ErrorLog, "error.reprox.log")),
     TLSCertFile |-> absDir(stringOrDefault(aFconf.TLSCert, "/etc/ssl/reprox.pem")),
     TLSKeyFile  |-> absDir(stringOrDefault(aFconf.TLSKey, "/etc/ssl/reprox.key")),
     MaxRequests |-> numberOrDefault(aFconf.MaxRequests, DefaultMaxRequests),
     WindowSize  |-> Duration(numberOrDefault(aFconf.WindowSize, DefaultWindowSize))]

\* mutant: a limit that the configuration already has is kept when the file
\* does not set it
loadScalars_merge(aConf, f) ==
    IF loadError(f) # "nil" THEN aConf
    ELSE LET new == scalars(Unmarshal(f.content)) IN
         [new EXCEPT
            !.MaxRequests = IF f.content.max_requests = Absent /\ aConf.MaxRequests # 0
                            THEN aConf.MaxRequests ELSE new.MaxRequests,
            !.WindowSize  = IF f.content.window_size = Absent /\ aConf.WindowSize # 0
                            THEN aConf.WindowSize ELSE new.WindowSize]

\* mutant: the settings are assigned before the loop over the hosts, so a
\* load that fails in the loop has already changed them
loadScalars_early(aConf, f) ==
    IF loadError(f) \in {"nil", "url", "scheme"}
    THEN scalars(Unmarshal(f.content)) ELSE aConf

\* the scalar settings after loadConfigFile ran on settings aConf and file f
loadScalars(aConf, f) ==
    IF loadError(f) = "nil" THEN scalars(Unmarshal(f.content)) ELSE aConf

\* ------------------------------------------------------------------------
\* Pipelines: createReverseProxy, newReverseProxy and the director

FallbackURL == [scheme |-> "https", host |-> "www.cia.gov"]

\* mutant: the pipeline is built without the target
newReverseProxy_noTarget(aTarget, aId) ==
    [id |-> aId, target |-> NilURL, transport |-> "http.Transport"]

\* a new pipeline instance for the target of aTarget
newReverseProxy(aTarget, aId) ==
    [id |-> aId, target |-> aTarget.target, transport |-> "http.Transport"]

\* a *tHostConfig: nil, or the address of a tHostConfig
NilTarget == <<>>
AddressOf(aHostConfig) == <<aHostConfig>>

\* mutant: a pipeline is built although the target URL is missing
createReverseProxy_noCheck(aTarget, aId) ==
    IF aTarget = NilTarget
    THEN [proxy |-> NilProxy, err |-> TRUE]
    ELSE IF aTarget[1].destProxy # NilProxy
    THEN [proxy |-> aTarget[1].destProxy, err |-> FALSE]
    ELSE [proxy |-> newReverseProxy(aTarget[1], aId), err |-> FALSE]

\* createReverseProxy(aTarget): the cached pipeline, a new one, or an error.
\* aTarget is a pointer: NilTarget or AddressOf a tHostConfig
createReverseProxy(aTarget, aId) ==
    IF aTarget = NilTarget
    THEN [proxy |-> NilProxy, err |-> TRUE]
    ELSE IF aTarget[1].destProxy # NilProxy
    THEN [proxy |-> aTarget[1].destProxy, err |-> FALSE]
    ELSE IF aTarget[1].target = NilURL
    THEN [proxy |-> NilProxy, err |-> TRUE]
    ELSE [proxy |-> newReverseProxy(aTarget[1], aId), err |-> FALSE]

\* an http.Request as far as the director uses it: the fields of its URL and
\* its Host
NoRequest == [scheme |-> "", host |-> "", path |-> "", query |-> "", Host |-> ""]

\* mutant: the two queries are always joined with "&"
joinQuery_always(aTargetQuery, aRawQuery) == aTargetQuery \o "&" \o aRawQuery

\* the RawQuery the director sets
joinQuery(aTargetQuery, aRawQuery) ==
    IF aTargetQuery = "" \/ aRawQuery = ""
    THEN aTargetQuery \o aRawQuery
    ELSE aTargetQuery \o "&" \o aRawQuery

\* the director of a pipeline whose target has the URL aURL with the
\* RawQuery aQuery, applied to aRequest
directorRewrite(aURL, aQuery, aRequest) ==
    LET url == IF aURL # NilURL
               THEN [aRequest EXCEPT !.scheme = aURL.scheme,
                                     !.host = aURL.host,
                                     !.query = joinQuery(aQuery, aRequest.query)]
               ELSE [aRequest EXCEPT !.scheme = FallbackURL.scheme,
                                     !.host = FallbackURL.host]
    IN [url EXCEPT !.Host = url.host]

\* where the director of a pipeline sends a request
director(aProxy) ==
    IF aProxy.target # NilURL THEN aProxy.target ELSE FallbackURL

\* ------------------------------------------------------------------------
\* Initial state: the process starts, the file is in any state

NoFile(aKind, aTime) ==
    [kind |-> aKind, content |-> cfgNotJSON, mtime |-> aTime,
     mode |-> IF aKind = "dir" THEN 755 ELSE 0]

\* a regular file as os.WriteFile(name, data, 0644) creates it
NewFile(aContent, aTime) ==
    [kind |-> "file", content |-> aContent, mtime |-> aTime, mode |-> 644]

\* SaveConfig has not been called
NoSave ==
    [err |-> "none", after |-> NoFile("missing", 0),
     hosts |-> Mapping(EmptyMap), conf |-> ZeroConf]

\* the table and the settings that one load of aContent assigned
loadedFrom(aContent) == [table |-> aContent, conf |-> aContent]

\* the director has rewritten no request
NoRewrite ==
    [target |-> NilURL, query |-> "", done |-> FALSE,
     before |-> NoRequest, after |-> NoRequest]

\* createReverseProxy has not been called
NoCreate == [arg |-> NilTarget, out |-> [c \in Callers |-> <<>>]]

\* ratelimit.Wrap has not been called
NoLimiter == [wrapped |-> FALSE, maxReq |-> 0, window |-> 0]

\* CloseIdleConnections has not been called
NoClose == [done |-> FALSE, ids |-> {}]

\* loadConfigFile has read nothing
NoRead == [content |-> cfgNotJSON, mtime |-> 0]

\* a SaveConfig call that has not begun
IdleReader ==
    [pc |-> "idle", hosts |-> Mapping(EmptyMap), settings |-> ZeroConf,
     table |-> cfgNotJSON, conf |-> cfgNotJSON]

\* stored is history: the target URL the table held for the request's host
\* when the request looked it up
IdleReq ==
    [pc |-> "idle", host |-> <<>>, target |-> tHostConfig(NilURL, NilProxy),
     proxy |-> NilProxy, fresh |-> FALSE, stored |-> NilURL]

NoResp ==
    [host |-> <<>>, status |-> 0, proxy |-> NilProxy, sentTo |-> NilURL,
     fresh |-> FALSE, written |-> <<>>, sent |-> 0, stored |-> NilURL]

InitRest ==
    /\ wpc = "init"
    /\ prevModTime = 0
    /\ modTime = 0
    /\ cancelled = FALSE
    /\ req = [r \in Reqs |-> IdleReq]
    /\ nProxy = 0
    /\ resp = NoResp
    /\ spc = "idle"
    /\ tmpFile = NoFile("missing", 0)
    /\ configData = cfgNotJSON
    /\ saved = NoSave
    /\ mu = NoLock
    /\ lpc = "idle"
    /\ fconf = NoRead
    /\ rd = [i \in Readers |-> IdleReader]
    /\ closedIdle = NoClose
    /\ limiter = NoLimiter

Init ==
    /\ file \in {NewFile(c, 0) : c \in Contents}
                \cup {NoFile("missing", 0), NoFile("dir", 0)}
    /\ hostMappings = EmptyMap
    /\ conf = ZeroConf
    /\ result = "none"
    /\ main = "start"
    /\ installed = Mapping(EmptyMap)
    /\ lastLoad = [by |-> "none", err |-> "nil"]
    /\ origin = loadedFrom(cfgNotJSON)
    /\ rewritten = NoRewrite
    /\ created = NoCreate
    /\ InitRest

\* ------------------------------------------------------------------------
\* The file system (environment)

\* os.WriteFile: new content, later modification time
WriteFile(c) ==
    /\ main = "running"
    /\ file.kind # "dir"
    /\ file.mtime < MaxMTime
    /\ file' = IF file.kind = "file"
               THEN [file EXCEPT !.content = c, !.mtime = file.mtime + 1]
               ELSE NewFile(c, file.mtime + 1)
    /\ UNCHANGED <<hostMappings, main, watchVars, cancelled, reqVars,
                   installed, lastLoad,
                   conf, result, saveVars, mu, lockVars, closedIdle, callVars>>

\* a write within the granularity of the file's time stamp
WriteSameTime(c) ==
    /\ main = "running"
    /\ file.kind = "file"
    /\ c # file.content
    /\ file' = [file EXCEPT !.content = c]
    /\ UNCHANGED <<hostMappings, main, watchVars, cancelled, reqVars,
                   installed, lastLoad,
                   conf, result, saveVars, mu, lockVars, closedIdle, callVars>>

RemoveFile ==
    /\ main = "running"
    /\ file.kind # "missing"
    /\ file' = NoFile("missing", file.mtime)
    /\ UNCHANGED <<hostMappings, main, watchVars, cancelled, reqVars,
                   installed, lastLoad,
                   conf, result, saveVars, mu, lockVars, closedIdle, callVars>>

MakeDir ==
    /\ main = "running"
    /\ file.kind = "missing"
    /\ file.mtime < MaxMTime
    /\ file' = NoFile("dir", file.mtime + 1)
    /\ UNCHANGED <<hostMappings, main, watchVars, cancelled, reqVars,
                   installed, lastLoad,
                   conf, result, saveVars, mu, lockVars, closedIdle, callVars>>

\* ------------------------------------------------------------------------
\* Loads: the effect of one loadConfigFile call on the live configuration

\* a successful load ends the freshness of every request in progress
stale(aReq) == [aReq EXCEPT !.fresh = FALSE]

\* loadConfigFile of file f on a configuration with table aTable and settings
\* aConf, from pc.Lock() to the deferred pc.Unlock() in one step; it waits
\* for the lock, which SaveConfig holds for reading while it runs
InstallInto(aTable, aConf, aBy, f) ==
    /\ canLock(mu)
    /\ hostMappings' = loadConfigFile(aTable, f)
    /\ conf' = loadScalars(aConf, f)
    /\ lastLoad' = [by |-> aBy, err |-> loadError(f)]
    /\ origin' = IF loadError(f) = "nil" THEN loadedFrom(f.content) ELSE origin
    /\ IF loadError(f) = "nil"
       THEN /\ installed' = Mapping(tempMapping(f.content.hosts))
            /\ req' = [r \in Reqs |-> stale(req[r])]
            /\ resp' = stale(resp)
       ELSE UNCHANGED <<installed, req, resp>>

Install(aBy) == InstallInto(hostMappings, conf, aBy, file)

\* the file names LoadConfig is called with
FileNames == {"", "reprox.json"}

\* os.Stat(aFilename): nothing has the empty name
osStat(aFilename) == IF aFilename = "" THEN NoFile("missing", 0) ELSE file

\* mutant: the configuration is returned together with the error
LoadConfigResult_always(aErr) == "pc"

\* the pointer LoadConfig returns when loadConfigFile returned aErr
LoadConfigResult(aErr) == IF aErr # "nil" THEN "nil" ELSE "pc"

\* LoadConfig(aFilename) into a new configuration
LoadConfigFrom(aFilename) ==
    /\ InstallInto(EmptyMap, ZeroConf, "main", osStat(aFilename))
    /\ result' = LoadConfigResult(loadError(osStat(aFilename)))
    /\ main' = IF loadError(osStat(aFilename)) = "nil" THEN "running" ELSE "fatal"
    /\ UNCHANGED <<file, watchVars, cancelled, nProxy, saveVars, mu,
                   lpc, fconf, rd, closedIdle, callVars>>

\* main(): LoadConfig at start-up, fatal when it fails
LoadConfig ==
    /\ main = "start"
    /\ \E aFilename \in FileNames : LoadConfigFrom(aFilename)

\* LoadConfig of the file that SaveConfig wrote
LoadSaved ==
    /\ main = "running"
    /\ saved.err = "nil"
    /\ LoadConfigFrom("reprox.json")

\* an explicit loadConfigFile call on the live configuration
Reload ==
    /\ main = "running"
    /\ Install("call")
    /\ UNCHANGED <<file, main, watchVars, cancelled, nProxy, result, saveVars,
                   mu, lpc, fconf, rd, closedIdle, callVars>>

\* ------------------------------------------------------------------------
\* WatchConfigFile

\* mutant: the configuration is not tested
nilConfig_never(aPc) == FALSE

\* nil == aPc
nilConfig(aPc) == aPc = "nil"

\* the call with what LoadConfig returned: the test for a nil configuration
\* and the stat before the loop
WatchStart ==
    /\ result # "none"
    /\ wpc = "init"
    /\ IF ~nilConfig(result) /\ file.kind = "file"
       THEN /\ prevModTime' = file.mtime
            /\ wpc' = "polling"
       ELSE /\ wpc' = "returned"
            /\ UNCHANGED prevModTime
    /\ UNCHANGED <<file, hostMappings, main, modTime, cancelled,
                   reqVars, installed, lastLoad,
                   conf, result, saveVars, mu, lockVars, closedIdle, callVars>>

\* mutant: the error of the stat is not tested
changed_anyway(aFile, aPrev) == aFile.mtime # aPrev

\* whether a tick that stats aFile goes on to load it
changed(aFile, aPrev) == aFile.kind # "missing" /\ aFile.mtime # aPrev

\* case <-ticker.C: stat and compare
WatchTick ==
    /\ wpc = "polling"
    /\ IF changed(file, prevModTime)
       THEN /\ modTime' = file.mtime
            /\ wpc' = "loading"
       ELSE UNCHANGED <<wpc, modTime>>
    /\ UNCHANGED <<file, hostMappings, main, prevModTime, cancelled,
                   reqVars, installed, lastLoad,
                   conf, result, saveVars, mu, lockVars, closedIdle, callVars>>

\* mutant: the modification time is not remembered
rememberModTime_never(aPrev, aModTime, aErr) == aPrev

\* mutant: the modification time is remembered after a failed load too
rememberModTime_always(aPrev, aModTime, aErr) == aModTime

\* the prevModTime after the load of a tick returned aErr
rememberModTime(aPrev, aModTime, aErr) ==
    IF aErr = "nil" THEN aModTime ELSE aPrev

\* mutant: a reload that fails ends the watcher
WatchLoad_strict ==
    /\ wpc = "loading"
    /\ Install("watcher")
    /\ prevModTime' = rememberModTime(prevModTime, modTime, loadError(file))
    /\ modTime' = 0
    /\ wpc' = IF loadError(file) = "nil" THEN "polling" ELSE "returned"
    /\ UNCHANGED <<file, main, cancelled, nProxy, result, saveVars, mu,
                   lpc, fconf, rd, closedIdle, callVars>>

\* the load of a tick
WatchLoad ==
    /\ wpc = "loading"
    /\ Install("watcher")
    /\ prevModTime' = rememberModTime(prevModTime, modTime, loadError(file))
    /\ modTime' = 0
    /\ wpc' = "polling"
    /\ UNCHANGED <<file, main, cancelled, nProxy, result, saveVars, mu,
                   lpc, fconf, rd, closedIdle, callVars>>

\* the context is cancelled
Cancel ==
    /\ main = "running"
    /\ ~cancelled
    /\ cancelled' = TRUE
    /\ UNCHANGED <<file, hostMappings, main, watchVars, reqVars,
                   installed, lastLoad,
                   conf, result, saveVars, mu, lockVars, closedIdle, callVars>>

\* mutant: the cancellation also ends a load that is in progress
WatchDone_abort ==
    /\ wpc \in {"polling", "loading"}
    /\ cancelled
    /\ wpc' = "returned"
    /\ UNCHANGED <<file, hostMappings, main, prevModTime, modTime,
                   cancelled, reqVars, installed, lastLoad,
                   conf, result, saveVars, mu, lockVars, closedIdle, callVars>>

\* case <-aCtx.Done()
WatchDone ==
    /\ wpc = "polling"
    /\ cancelled
    /\ wpc' = "returned"
    /\ UNCHANGED <<file, hostMappings, main, prevModTime, modTime,
                   cancelled, reqVars, installed, lastLoad,
                   conf, result, saveVars, mu, lockVars, closedIdle, callVars>>

\* ------------------------------------------------------------------------
\* TProxyHandler.ServeHTTP

\* requestedHost := strings.ToLower(aRequest.Host)
requestedHost(aHost) == ToLower(aHost)

\* mutant: the new pipeline is not stored
setTarget_drop(aTable, aHost, aTarget) == aTable

\* mutant: only the pipeline is stored, into the entry the table holds now
setTarget_proxyOnly(aTable, aHost, aTarget) ==
    [k \in DOMAIN aTable |->
        IF k = aHost THEN [aTable[k] EXCEPT !.destProxy = aTarget.destProxy]
        ELSE aTable[k]]

\* ph.conf.hostMappings[requestHost] = target
setTarget(aTable, aHost, aTarget) ==
    [k \in DOMAIN aTable \cup {aHost} |->
        IF k = aHost THEN aTarget ELSE aTable[k]]

\* mutant: the lookup ignores whether the host was found
getTarget_zero(aTable, aHost) ==
    IF aHost \in DOMAIN aTable
    THEN [target |-> aTable[aHost], ok |-> TRUE]
    ELSE [target |-> tHostConfig(NilURL, NilProxy), ok |-> TRUE]

\* target, ok := ph.conf.hostMappings[requestHost] under the read lock
getTarget(aTable, aHost) ==
    IF aHost \in DOMAIN aTable
    THEN [target |-> aTable[aHost], ok |-> TRUE]
    ELSE [target |-> tHostConfig(NilURL, NilProxy), ok |-> FALSE]

\* the response of a call that ends: aWritten are the status codes written
\* to the client in order (the first one counts), aSent is the number of
\* times the request went out to the backend
response(aReq, aWritten, aSent, aSentTo) ==
    [host |-> aReq.host, status |-> IF aWritten = <<>> THEN 0 ELSE aWritten[1],
     proxy |-> aReq.proxy, sentTo |-> aSentTo, fresh |-> aReq.fresh,
     written |-> aWritten, sent |-> aSent, stored |-> aReq.stored]

\* a request arrives: host lookup under the read lock, 404 without entry
ServeLookup(r, h) ==
    /\ main = "running"
    /\ req[r].pc = "idle"
    /\ canRLock(mu)
    /\ LET got == getTarget(hostMappings, requestedHost(h))
           rq == [IdleReq EXCEPT !.host = h, !.fresh = TRUE,
                                 !.stored = got.target.target]
       IN
       IF ~got.ok
       THEN /\ resp' = response(rq, <<404>>, 0, NilURL)
            /\ UNCHANGED req
       ELSE /\ req' = [req EXCEPT ![r] =
                  IF got.target.destProxy # NilProxy
                  THEN [rq EXCEPT !.pc = "serve", !.proxy = got.target.destProxy]
                  ELSE [rq EXCEPT !.pc = "build", !.target = got.target]]
            /\ UNCHANGED resp
    /\ UNCHANGED <<file, hostMappings, main, watchVars, cancelled, nProxy,
                   installed, lastLoad,
                   conf, result, saveVars, mu, lockVars, closedIdle, callVars>>

\* between Lock() and Unlock(): the pipeline is built and the entry with the
\* pipeline is stored, or the build fails and the answer is 500
storeLocked(r) ==
    LET res == createReverseProxy(AddressOf(req[r].target), nProxy + 1) IN
    IF res.err
    THEN /\ resp' = response(req[r], <<500>>, 0, NilURL)
         /\ req' = [req EXCEPT ![r] = IdleReq]
         /\ UNCHANGED <<hostMappings, nProxy>>
    ELSE /\ nProxy < MaxBuilds
         /\ nProxy' = nProxy + 1
         /\ hostMappings' = setTarget(hostMappings, requestedHost(req[r].host),
                                tHostConfig(req[r].target.target, res.proxy))
         /\ req' = [req EXCEPT ![r] = [@ EXCEPT !.pc = "serve",
                         !.proxy = res.proxy, !.target = IdleReq.target]]
         /\ UNCHANGED resp

\* no cached pipeline: build one and store it under the write lock, from
\* Lock() to Unlock() in one step
ServeStore(r) ==
    /\ req[r].pc = "build"
    /\ canLock(mu)
    /\ storeLocked(r)
    /\ UNCHANGED <<file, main, watchVars, cancelled, installed, lastLoad,
                   conf, result, saveVars, mu, lockVars, closedIdle, callVars>>

\* mutant: the store is done without the lock
ServeLock_none(r) ==
    /\ req[r].pc = "build"
    /\ req' = [req EXCEPT ![r] = [@ EXCEPT !.pc = "locked"]]
    /\ UNCHANGED <<file, hostMappings, main, watchVars, cancelled, nProxy, resp,
                   installed, lastLoad, conf, result, saveVars, mu, lockVars,
                   closedIdle, callVars>>

\* the same followed step by step: ph.conf.Lock()
ServeLock(r) ==
    /\ req[r].pc = "build"
    /\ canLock(mu)
    /\ mu' = Lock(mu, Server(r))
    /\ req' = [req EXCEPT ![r] = [@ EXCEPT !.pc = "locked"]]
    /\ UNCHANGED <<file, hostMappings, main, watchVars, cancelled, nProxy, resp,
                   installed, lastLoad, conf, result, saveVars, lockVars,
                   closedIdle, callVars>>

\* mutant: the Unlock() is deferred to the return of ServeHTTP
ServeLocked_deferred(r) ==
    /\ req[r].pc = "locked"
    /\ storeLocked(r)
    /\ UNCHANGED <<file, main, watchVars, cancelled, installed, lastLoad,
                   conf, result, saveVars, mu, lockVars, closedIdle, callVars>>

\* the build and the store with the lock held, then ph.conf.Unlock()
ServeLocked(r) ==
    /\ req[r].pc = "locked"
    /\ storeLocked(r)
    /\ mu' = Unlock(mu)
    /\ UNCHANGED <<file, main, watchVars, cancelled, installed, lastLoad,
                   conf, result, saveVars, lockVars, closedIdle, callVars>>

\* mutant: the error handler only logs
ErrorHandler_silent(aWritten) == aWritten

\* the ErrorHandler of a pipeline: logs the error and writes 502
ErrorHandler(aWritten) == Append(aWritten, 502)

\* the pipeline's ServeHTTP: the director sets the destination, the request
\* goes out once, the backend's status is copied or the ErrorHandler runs
proxyServeHTTP(aProxy, aReachable) ==
    [sentTo  |-> director(aProxy),
     sent    |-> 1,
     written |-> IF aReachable THEN <<200>> ELSE ErrorHandler(<<>>)]

\* proxy.ServeHTTP: the pipeline forwards the request, 502 when that fails
ServeForward(r, aReachable) ==
    /\ req[r].pc = "serve"
    /\ LET out == proxyServeHTTP(req[r].proxy, aReachable) IN
       resp' = response(req[r], out.written, out.sent, out.sentTo)
    /\ req' = [req EXCEPT ![r] = IdleReq]
    /\ UNCHANGED <<file, hostMappings, main, watchVars, cancelled, nProxy,
                   installed, lastLoad,
                   conf, result, saveVars, mu, lockVars, closedIdle, callVars>>

\* ------------------------------------------------------------------------
\* TProxyHandler.CloseIdleConnections

\* mutant: only the transports of type *http.Transport are closed
closesIdle_httpOnly(aTransport) == aTransport = "http.Transport"

\* the two type assertions on proxy.Transport: *http.Transport or IConnCloser
closesIdle(aTransport) == aTransport \in {"http.Transport", "closer"}

\* the pipelines whose transport the loop over the table calls
idleClosed(aTable) ==
    {aTable[k].destProxy.id :
        k \in {h \in DOMAIN aTable :
                 /\ aTable[h].destProxy # NilProxy
                 /\ closesIdle(aTable[h].destProxy.transport)}}

\* the call, under the read lock
CloseIdleConnections ==
    /\ main = "running"
    /\ canRLock(mu)
    /\ closedIdle' = [done |-> TRUE, ids |-> idleClosed(hostMappings)]
    /\ UNCHANGED <<file, hostMappings, main, watchVars, cancelled, reqVars,
                   installed, lastLoad, conf, result, saveVars, mu, lockVars,
                   callVars>>

\* ------------------------------------------------------------------------
\* tProxyConfig.SaveConfig

\* config.target.String()
UrlString(u) ==
    CASE u = [scheme |-> "http",  host |-> "b1:80"]  -> "http://b1:80"
      [] u = [scheme |-> "https", host |-> "b2:443"] -> "https://b2:443"
      [] u = [scheme |-> "http",  host |-> "b3:80"]  -> "http://b3:80"
      [] OTHER                                       -> ""

\* a uint field tagged omitempty
OmitEmpty(n) == IF n = 0 THEN Absent ELSE <<n>>

\* json.MarshalIndent(conf): the file SaveConfig writes for table aTable and
\* settings aConf, aWindow being uint(pc.WindowSize.Seconds())
MarshalConfig(aTable, aConf, aWindow) ==
    [json         |-> TRUE,
     hosts        |-> [k \in DOMAIN aTable |-> UrlString(aTable[k].target)],
     access_log   |-> aConf.AccessLog,
     error_log    |-> aConf.ErrorLog,
     tls_cert     |-> aConf.TLSCertFile,
     tls_key      |-> aConf.TLSKeyFile,
     max_requests |-> OmitEmpty(aConf.MaxRequests),
     window_size  |-> OmitEmpty(aWindow)]

\* os.CreateTemp(dir, "*.tmp"): an empty file of mode 600
CreateTemp == [kind |-> "file", content |-> cfgNotJSON, mtime |-> 0, mode |-> 600]

\* mutant: the temporary file is left behind
removeTmp_keep(aTmp) == aTmp

\* the deferred os.Remove(tmpName)
removeTmp(aTmp) == NoFile("missing", 0)

\* os.Chmod(tmpName, 0600)
chmod(aTmp, aMode) == [aTmp EXCEPT !.mode = aMode]

\* os.Rename(tmpName, aFilename): the temporary file takes the place of the
\* destination
rename(aTmp, aTime) == [aTmp EXCEPT !.mtime = aTime]

\* SaveConfig returns the error of the step aStep, the deferred Remove runs
SaveFailed(aStep) ==
    /\ spc' = "idle"
    /\ mu' = RUnlock(mu, Saver)
    /\ tmpFile' = removeTmp(tmpFile)
    /\ saved' = [NoSave EXCEPT !.err = aStep]
    /\ UNCHANGED <<file, configData>>

\* the call: pc.RLock(), which the deferred pc.RUnlock() undoes when the
\* call returns; the JSON is marshalled, then os.CreateTemp
SaveCreate(aOk) ==
    /\ main = "running"
    /\ spc = "idle"
    /\ canRLock(mu)
    /\ file.mtime < MaxMTime
    /\ IF aOk
       THEN /\ \E w \in UintOfSeconds(conf.WindowSize) :
                  configData' = MarshalConfig(hostMappings, conf, w)
            /\ spc' = "created"
            /\ mu' = RLock(mu, Saver)
            /\ tmpFile' = CreateTemp
            /\ UNCHANGED <<file, saved>>
       ELSE /\ spc' = "idle"
            /\ saved' = [NoSave EXCEPT !.err = "create"]
            /\ UNCHANGED <<file, tmpFile, configData, mu>>
    /\ UNCHANGED <<hostMappings, main, watchVars, cancelled, reqVars,
                   installed, lastLoad, conf, result, lockVars, closedIdle, callVars>>

\* tmpFile.Write(configData)
SaveWrite(aOk) ==
    /\ spc = "created"
    /\ IF aOk
       THEN /\ spc' = "written"
            /\ tmpFile' = [tmpFile EXCEPT !.content = configData]
            /\ UNCHANGED <<file, configData, saved, mu>>
       ELSE SaveFailed("write")
    /\ UNCHANGED <<hostMappings, main, watchVars, cancelled, reqVars,
                   installed, lastLoad, conf, result, lockVars, closedIdle, callVars>>

\* tmpFile.Close()
SaveClose(aOk) ==
    /\ spc = "written"
    /\ IF aOk
       THEN /\ spc' = "closed"
            /\ UNCHANGED <<file, tmpFile, configData, saved, mu>>
       ELSE SaveFailed("close")
    /\ UNCHANGED <<hostMappings, main, watchVars, cancelled, reqVars,
                   installed, lastLoad, conf, result, lockVars, closedIdle, callVars>>

\* os.Chmod(tmpName, 0600)
SaveChmod(aOk) ==
    /\ spc = "closed"
    /\ IF aOk
       THEN /\ spc' = "chmodded"
            /\ tmpFile' = chmod(tmpFile, 600)
            /\ UNCHANGED <<file, configData, saved, mu>>
       ELSE SaveFailed("chmod")
    /\ UNCHANGED <<hostMappings, main, watchVars, cancelled, reqVars,
                   installed, lastLoad, conf, result, lockVars, closedIdle, callVars>>

\* os.Rename(tmpName, aFilename), which fails on a directory, and the return
SaveRename(aOk) ==
    /\ spc = "chmodded"
    /\ IF aOk /\ file.kind # "dir" /\ file.mtime < MaxMTime
       THEN /\ spc' = "idle"
            /\ mu' = RUnlock(mu, Saver)
            /\ file' = rename(tmpFile, file.mtime + 1)
            /\ tmpFile' = NoFile("missing", 0)
            /\ saved' = [err |-> "nil", after |-> file',
                         hosts |-> Mapping(hostMappings), conf |-> conf]
            /\ UNCHANGED configData
       ELSE SaveFailed("rename")
    /\ UNCHANGED <<hostMappings, main, watchVars, cancelled, reqVars,
                   installed, lastLoad, conf, result, lockVars, closedIdle, callVars>>

\* a step of SaveConfig
SaveStep ==
    \E aOk \in BOOLEAN :
        SaveCreate(aOk) \/ SaveWrite(aOk) \/ SaveClose(aOk) \/ SaveChmod(aOk)
            \/ SaveRename(aOk)

\* ------------------------------------------------------------------------
\* loadConfigFile and SaveConfig followed step by step with the mutex

\* what the steps leave alone
loadFrame == <<file, main, watchVars, cancelled, nProxy, result, saveVars,
               rd, closedIdle, callVars>>

\* loadConfigFile returns the error aErr
loadReturns(aErr) ==
    /\ lastLoad' = [by |-> "call", err |-> aErr]
    /\ lpc' = "idle"
    /\ fconf' = NoRead

\* os.Stat and the test for a directory
LoadStat ==
    /\ main = "running"
    /\ lpc = "idle"
    /\ IF file.kind = "file"
       THEN /\ lpc' = "stat"
            /\ UNCHANGED <<lastLoad, fconf>>
       ELSE loadReturns(loadError(file))
    /\ UNCHANGED <<hostMappings, conf, installed, req, resp, mu, origin>>
    /\ UNCHANGED loadFrame

\* mutant: the lock is taken before the file is read
LoadRead_locked ==
    /\ lpc = "stat"
    /\ canLock(mu)
    /\ file.kind = "file"
    /\ loadError(file) \notin {"parse", "nohosts"}
    /\ fconf' = [content |-> file.content, mtime |-> file.mtime]
    /\ lpc' = "locked"
    /\ mu' = Lock(mu, Loader)
    /\ UNCHANGED <<hostMappings, conf, installed, req, resp, lastLoad, origin>>
    /\ UNCHANGED loadFrame

\* os.ReadFile, json.Unmarshal, the test for missing hosts and the defaults
LoadRead ==
    /\ lpc = "stat"
    /\ IF file.kind # "file"
       THEN loadReturns("read")
       ELSE IF loadError(file) \in {"parse", "nohosts"}
       THEN loadReturns(loadError(file))
       ELSE /\ fconf' = [content |-> file.content, mtime |-> file.mtime]
            /\ lpc' = "read"
            /\ UNCHANGED lastLoad
    /\ UNCHANGED <<hostMappings, conf, installed, req, resp, mu, origin>>
    /\ UNCHANGED loadFrame

\* pc.Lock(), with the deferred pc.Unlock()
LoadLock ==
    /\ lpc = "read"
    /\ canLock(mu)
    /\ mu' = Lock(mu, Loader)
    /\ lpc' = "locked"
    /\ UNCHANGED <<hostMappings, conf, installed, req, resp, lastLoad, fconf,
                   origin>>
    /\ UNCHANGED loadFrame

\* mutant: the lock is released between the table and the settings
LoadBuild_unlock ==
    /\ lpc = "locked"
    /\ loadError(NewFile(fconf.content, fconf.mtime)) = "nil"
    /\ hostMappings' = tempMapping(fconf.content.hosts)
    /\ origin' = [origin EXCEPT !.table = fconf.content]
    /\ installed' = Mapping(tempMapping(fconf.content.hosts))
    /\ req' = [r \in Reqs |-> stale(req[r])]
    /\ resp' = stale(resp)
    /\ lpc' = "table"
    /\ mu' = Unlock(mu)
    /\ UNCHANGED <<lastLoad, fconf, conf>>
    /\ UNCHANGED loadFrame

\* the loop over fconf.Hosts, which returns at the first bad target, and
\* pc.hostMappings = tempMapping
LoadBuild ==
    /\ lpc = "locked"
    /\ LET e == loadError(NewFile(fconf.content, fconf.mtime)) IN
       IF e # "nil"
       THEN /\ loadReturns(e)
            /\ mu' = Unlock(mu)
            /\ UNCHANGED <<hostMappings, installed, req, resp, origin>>
       ELSE /\ hostMappings' = tempMapping(fconf.content.hosts)
            /\ origin' = [origin EXCEPT !.table = fconf.content]
            /\ installed' = Mapping(tempMapping(fconf.content.hosts))
            /\ req' = [r \in Reqs |-> stale(req[r])]
            /\ resp' = stale(resp)
            /\ lpc' = "table"
            /\ UNCHANGED <<mu, lastLoad, fconf>>
    /\ UNCHANGED conf
    /\ UNCHANGED loadFrame

\* the assignments of the six settings and the return, where the deferred
\* pc.Unlock() runs
LoadFinish ==
    /\ lpc = "table"
    /\ conf' = scalars(Unmarshal(fconf.content))
    /\ origin' = [origin EXCEPT !.conf = fconf.content]
    /\ loadReturns("nil")
    /\ mu' = Unlock(mu)
    /\ UNCHANGED <<hostMappings, installed, req, resp>>
    /\ UNCHANGED loadFrame

\* what the steps of SaveConfig's read-locked part leave alone
readFrame == <<file, hostMappings, main, watchVars, cancelled, reqVars,
               installed, lastLoad, conf, result, saveVars, lpc, fconf, origin,
               closedIdle, callVars>>

\* pc.RLock(), with the deferred pc.RUnlock()
SaveRLock(i) ==
    /\ main = "running"
    /\ rd[i].pc = "idle"
    /\ canRLock(mu)
    /\ mu' = RLock(mu, Reader(i))
    /\ rd' = [rd EXCEPT ![i] = [@ EXCEPT !.pc = "rlocked"]]
    /\ UNCHANGED readFrame

\* the loop over pc.hostMappings
SaveReadHosts(i) ==
    /\ rd[i].pc = "rlocked"
    /\ rd' = [rd EXCEPT ![i] = [@ EXCEPT !.pc = "hosts",
                                         !.hosts = Mapping(hostMappings),
                                         !.table = origin.table]]
    /\ UNCHANGED mu
    /\ UNCHANGED readFrame

\* conf := tConfigFile{...}: the settings are read
SaveReadScalars(i) ==
    /\ rd[i].pc = "hosts"
    /\ rd' = [rd EXCEPT ![i] = [@ EXCEPT !.pc = "read",
                                         !.settings = conf,
                                         !.conf = origin.conf]]
    /\ UNCHANGED mu
    /\ UNCHANGED readFrame

\* SaveConfig returns and the deferred pc.RUnlock() runs
SaveReturn(i) ==
    /\ rd[i].pc = "read"
    /\ mu' = RUnlock(mu, Reader(i))
    /\ rd' = [rd EXCEPT ![i] = IdleReader]
    /\ UNCHANGED readFrame

\* ------------------------------------------------------------------------
\* Specifications

Next ==
    \/ \E c \in RacingContents : WriteFile(c)
    \/ \E c \in RacingContents : WriteSameTime(c)
    \/ RemoveFile
    \/ MakeDir
    \/ LoadConfig
    \/ WatchStart
    \/ WatchTick
    \/ WatchLoad
    \/ Cancel
    \/ WatchDone
    \/ \E r \in Reqs, h \in RacingHosts : ServeLookup(r, h)
    \/ \E r \in Reqs : ServeStore(r)
    \/ \E r \in Reqs : ServeForward(r, TRUE)

Spec == Init /\ [][Next]_vars

\* Loads and reloads of every kind of file, without requests
NextConfig ==
    \/ \E c \in Contents : WriteFile(c)
    \/ \E c \in Contents : WriteSameTime(c)
    \/ RemoveFile
    \/ MakeDir
    \/ LoadConfig
    \/ Reload
    \/ WatchStart
    \/ WatchTick
    \/ WatchLoad
    \/ Cancel
    \/ WatchDone

SpecConfig == Init /\ [][NextConfig]_vars

\* Requests on a loaded configuration while no reload happens
InitServe ==
    /\ file \in {NewFile(c, 0) : c \in ValidContents}
    /\ hostMappings = tempMapping(file.content.hosts)
    /\ conf = scalars(Unmarshal(file.content))
    /\ result = "pc"
    /\ main = "running"
    /\ installed = Mapping(hostMappings)
    /\ lastLoad = [by |-> "main", err |-> "nil"]
    /\ origin = loadedFrom(file.content)
    /\ rewritten = NoRewrite
    /\ created = NoCreate
    /\ InitRest

NextServe ==
    \/ \E r \in Reqs, h \in RequestHosts : ServeLookup(r, h)
    \/ \E r \in Reqs : ServeStore(r)
    \/ \E r \in Reqs, b \in BOOLEAN : ServeForward(r, b)

SpecServe == InitServe /\ [][NextServe]_vars

\* The same with calls that do not overlap
NextSeq ==
    \/ \E r \in Reqs, h \in RequestHosts :
          /\ \A q \in Reqs : req[q].pc = "idle"
          /\ ServeLookup(r, h)
    \/ \E r \in Reqs : ServeStore(r)
    \/ \E r \in Reqs, b \in BOOLEAN : ServeForward(r, b)

SpecSeq == InitServe /\ [][NextSeq]_vars

\* Loads, reloads and SaveConfig with files that set the optional fields
InitSave ==
    /\ file \in {NewFile(c, 0) : c \in ScalarContents}
    /\ hostMappings = EmptyMap
    /\ conf = ZeroConf
    /\ result = "none"
    /\ main = "start"
    /\ installed = Mapping(EmptyMap)
    /\ lastLoad = [by |-> "none", err |-> "nil"]
    /\ origin = loadedFrom(cfgNotJSON)
    /\ rewritten = NoRewrite
    /\ created = NoCreate
    /\ InitRest

NextSave ==
    \/ \E c \in ScalarContents : WriteFile(c)
    \/ RemoveFile
    \/ MakeDir
    \/ LoadConfig
    \/ Reload
    \/ LoadSaved
    \/ \E aOk \in BOOLEAN : SaveCreate(aOk)
    \/ \E aOk \in BOOLEAN : SaveWrite(aOk)
    \/ \E aOk \in BOOLEAN : SaveClose(aOk)
    \/ \E aOk \in BOOLEAN : SaveChmod(aOk)
    \/ \E aOk \in BOOLEAN : SaveRename(aOk)

SpecSave == InitSave /\ [][NextSave]_vars

\* A loaded configuration with reloads and SaveConfig calls that take and
\* release the mutex step by step
LockContents == {cfgB, cfgFull, cfgFtpFull}

InitLock ==
    /\ file \in {NewFile(c, 0) : c \in {cfgB, cfgFull}}
    /\ hostMappings = tempMapping(file.content.hosts)
    /\ conf = scalars(Unmarshal(file.content))
    /\ result = "pc"
    /\ main = "running"
    /\ installed = Mapping(hostMappings)
    /\ lastLoad = [by |-> "main", err |-> "nil"]
    /\ origin = loadedFrom(file.content)
    /\ rewritten = NoRewrite
    /\ created = NoCreate
    /\ InitRest

NextLock ==
    \/ \E c \in LockContents : WriteFile(c)
    \/ RemoveFile
    \/ LoadStat
    \/ LoadRead
    \/ LoadLock
    \/ LoadBuild
    \/ LoadFinish
    \/ \E i \in Readers : SaveRLock(i)
    \/ \E i \in Readers : SaveReadHosts(i)
    \/ \E i \in Readers : SaveReadScalars(i)
    \/ \E i \in Readers : SaveReturn(i)

SpecLock == InitLock /\ [][NextLock]_vars

\* The same with requests in place of the SaveConfig calls
NextLockServe ==
    \/ \E c \in LockContents : WriteFile(c)
    \/ LoadStat
    \/ LoadRead
    \/ LoadLock
    \/ LoadBuild
    \/ LoadFinish
    \/ \E r \in Reqs, h \in RacingHosts : ServeLookup(r, h)
    \/ \E r \in Reqs : ServeLock(r)
    \/ \E r \in Reqs : ServeLocked(r)
    \/ \E r \in Reqs : ServeForward(r, TRUE)

SpecLockServe == InitLock /\ [][NextLockServe]_vars

\* Requests on a table built by hand, with an entry that has no target
NilTargetMap ==
    [k \in {hEx, hTe} |->
        IF k = hEx THEN tHostConfig(NilURL, NilProxy)
        ELSE tHostConfig([scheme |-> "https", host |-> "b2:443"], NilProxy)]

InitNilTarget ==
    /\ file = NoFile("missing", 0)
    /\ hostMappings = NilTargetMap
    /\ conf = ZeroConf
    /\ result = "pc"
    /\ main = "running"
    /\ installed = Mapping(hostMappings)
    /\ lastLoad = [by |-> "none", err |-> "nil"]
    /\ origin = loadedFrom(cfgNotJSON)
    /\ rewritten = NoRewrite
    /\ created = NoCreate
    /\ InitRest

SpecNilTarget == InitNilTarget /\ [][NextServe]_vars

\* Requests and CloseIdleConnections on a table built by hand, with
\* pipelines whose transports are mock objects
hAn == <<"a", "n">>      \* "another.com"
hPl == <<"p", "l">>
hNo == <<"n", "o">>

\* a pipeline built by hand with a transport of kind aTransport
mockProxy(aId, aTransport) ==
    [id |-> aId, target |-> NilURL, transport |-> aTransport]

validTarget == [scheme |-> "http", host |-> "b1:80"]

CloseMap ==
    [k \in {hEx, hAn, hPl, hTe, hNo} |->
        CASE k = hEx -> tHostConfig(validTarget, mockProxy(11, "closer"))
          [] k = hAn -> tHostConfig(validTarget, mockProxy(12, "closer"))
          [] k = hPl -> tHostConfig(validTarget, mockProxy(13, "plain"))
          [] OTHER   -> tHostConfig(validTarget, NilProxy)]

InitClose ==
    /\ file = NoFile("missing", 0)
    /\ hostMappings = CloseMap
    /\ conf = ZeroConf
    /\ result = "pc"
    /\ main = "running"
    /\ installed = Mapping(hostMappings)
    /\ lastLoad = [by |-> "none", err |-> "nil"]
    /\ origin = loadedFrom(cfgNotJSON)
    /\ rewritten = NoRewrite
    /\ created = NoCreate
    /\ InitRest

\* the requests are for the host whose pipeline newReverseProxy builds
NextClose ==
    \/ \E r \in Reqs : ServeLookup(r, hTe)
    \/ \E r \in Reqs : ServeStore(r)
    \/ \E r \in Reqs, b \in BOOLEAN : ServeForward(r, b)
    \/ CloseIdleConnections

SpecClose == InitClose /\ [][NextClose]_vars

\* The watcher under the scheduling of its select: a load that has begun
\* returns, and a cancelled context is chosen at some turn of the loop
SpecConfigFair ==
    /\ Init
    /\ [][NextConfig]_vars
    /\ WF_vars(WatchLoad)
    /\ SF_vars(WatchDone)

\* ------------------------------------------------------------------------
\* Properties

\* a step that runs loadConfigFile on the live, already loaded configuration
ReloadStep == Reload \/ WatchLoad

\* C1: a load attempt that fails (file missing, directory, malformed JSON,
\* missing or empty hosts, unparsable URL, scheme other than http/https in
\* one entry), whether called directly or by the watcher, leaves the host
\* table exactly as it was before the attempt.
C1_FailedLoadKeepsTable ==
    [][(ReloadStep /\ loadError(file) # "nil") => hostMappings' = hostMappings]_vars

\* C1 witness: the watcher's load of a file with one valid and one invalid
\* entry failed and the table still is the one loaded from cfgA
C1_Witness ==
    /\ main = "running"
    /\ lastLoad = [by |-> "watcher", err |-> "scheme"]
    /\ file.kind = "file" /\ file.content = cfgFtp
    /\ hostMappings = tempMapping(cfgA.hosts)

\* C2: the host -> target mapping of the table always is the mapping of one
\* single successfully loaded configuration, the last one installed.
C2_TableIsOneLoad == Mapping(hostMappings) = installed

\* C3: a request that started after the last successful reload was installed
\* is routed by that reload: forwarded to the target the file gives for its
\* host, 404 when the file has no such host.
C3_RoutedByLastReload ==
    (resp.status # 0 /\ resp.fresh) =>
        IF requestedHost(resp.host) \in DOMAIN installed
        THEN /\ resp.status \in {200, 502}
             /\ resp.sentTo = installed[requestedHost(resp.host)]
        ELSE /\ resp.status = 404
             /\ resp.sentTo = NilURL

\* C4: a request whose lowercased Host has no entry is answered 404, builds
\* no pipeline, is forwarded nowhere and leaves the table unchanged.
C4_UnmappedHostIs404 ==
    [][\A r \in Reqs, h \in RequestHosts :
        (ServeLookup(r, h) /\ ToLower(h) \notin DOMAIN hostMappings) =>
            /\ resp'.host = h
            /\ resp'.status = 404
            /\ resp'.proxy = NilProxy
            /\ resp'.sentTo = NilURL
            /\ UNCHANGED <<hostMappings, nProxy, req>>]_vars

\* C4 witness: a request for a host the loaded file does not map got 404
C4_Witness ==
    /\ resp.status = 404
    /\ ToLower(resp.host) \notin DOMAIN hostMappings
    /\ nProxy = 0

\* the hosts whose table entry holds a pipeline
cached == {k \in DOMAIN hostMappings : hostMappings[k].destProxy # NilProxy}

\* C5: with calls that do not overlap and no reload, the first call for a
\* mapped host builds a pipeline and stores it in the entry, and every later
\* call for that host uses this stored instance and builds no other one.
C5_SequentialReuse ==
    /\ nProxy = Cardinality(cached)
    /\ \A r \in Reqs : req[r].pc = "serve" =>
          /\ req[r].proxy # NilProxy
          /\ req[r].proxy = hostMappings[ToLower(req[r].host)].destProxy
    /\ resp.status \in {200, 502} =>
          /\ resp.proxy # NilProxy
          /\ resp.proxy = hostMappings[ToLower(resp.host)].destProxy

\* C5 witness: a first call built pipeline 1 and returned, a later call for
\* the same host is about to forward through the same instance
C5_Witness ==
    /\ nProxy = 1
    /\ resp.status = 200 /\ resp.proxy.id = 1
    /\ \E r \in Reqs : /\ req[r].pc = "serve"
                       /\ req[r].proxy = resp.proxy
                       /\ ToLower(req[r].host) = ToLower(resp.host)

\* C6: concurrent requests for one mapped host without cached pipeline: none
\* fails with 404 or 500, each is forwarded through a pipeline built for the
\* host's target, and when they have finished the entry of the host holds a
\* non-nil pipeline that points at the host's target.
C6_ConcurrentBuilds ==
    /\ (resp.status # 0 /\ ToLower(resp.host) \in DOMAIN installed) =>
          /\ resp.status \in {200, 502}
          /\ resp.proxy.id \in 1..nProxy
          /\ resp.proxy.target = installed[ToLower(resp.host)]
          /\ resp.sentTo = installed[ToLower(resp.host)]
          /\ hostMappings[ToLower(resp.host)].destProxy.id \in 1..nProxy
    /\ \A k \in cached :
          /\ hostMappings[k].target = installed[k]
          /\ hostMappings[k].destProxy.target = installed[k]

\* C6 witness: two requests built one pipeline each for the same host, both
\* have finished, the entry holds one of the two
C6_Witness ==
    /\ \A r \in Reqs : req[r].pc = "idle"
    /\ nProxy = 2
    /\ cached = {ToLower(resp.host)}
    /\ resp.status = 200
    /\ resp.proxy # hostMappings[ToLower(resp.host)].destProxy

\* the spellings of one host name in the Host header
ExampleCom == {<<"e", "x">>, <<"E", "x">>, <<"E", "X">>}

\* C7: with the key "example.com" loaded, requests with Host "Example.com",
\* "EXAMPLE.COM" and "example.com" resolve to the same table entry and are
\* forwarded to the same backend.
C7_CaseInsensitiveHost ==
    hEx \in DOMAIN installed =>
        /\ \A r \in Reqs : (req[r].pc = "build" /\ req[r].host \in ExampleCom) =>
              req[r].target.target = hostMappings[hEx].target
        /\ \A r \in Reqs : (req[r].pc = "serve" /\ req[r].host \in ExampleCom) =>
              director(req[r].proxy) = hostMappings[hEx].target
        /\ resp.host \in ExampleCom =>
              /\ resp.status \in {200, 502}
              /\ resp.sentTo = hostMappings[hEx].target

\* C7 witness: "EXAMPLE.COM" was forwarded, "Example.com" is about to be
\* forwarded through the same pipeline
C7_Witness ==
    /\ resp.host = <<"E", "X">> /\ resp.status = 200
    /\ resp.sentTo = installed[hEx]
    /\ \E r \in Reqs : /\ req[r].host = <<"E", "x">>
                       /\ req[r].pc = "serve"
                       /\ req[r].proxy = resp.proxy

\* a file with a hosts value whose scheme is neither http nor https
otherScheme(f) ==
    /\ f.kind = "file" /\ f.content.json
    /\ \E k \in DOMAIN f.content.hosts :
          /\ f.content.hosts[k] \in {"ftp://x", "invalid:url", "invalid://url"}

\* C8: every entry of the host table has a non-nil target whose scheme is
\* http or https, and a file in which some hosts value has another scheme is
\* rejected as a whole.
C8_SchemeRestricted ==
    /\ [](\A k \in DOMAIN hostMappings :
            /\ hostMappings[k].target # NilURL
            /\ hostMappings[k].target.scheme \in {"http", "https"})
    /\ [][((LoadConfig \/ ReloadStep) /\ otherScheme(file)) =>
            /\ lastLoad'.err # "nil"
            /\ hostMappings' = hostMappings]_vars

\* C8 witness: an explicit reload of a file with "invalid:url" and
\* "invalid://url" was rejected, the table still has its entries
C8_Witness ==
    /\ lastLoad = [by |-> "call", err |-> "scheme"]
    /\ file.kind = "file" /\ file.content = cfgInvalid
    /\ DOMAIN hostMappings # {}

\* C9: a configuration without hosts is rejected, so once the initial load
\* has succeeded the live table holds at least one route in every state.
C9_AtLeastOneRoute ==
    /\ main = "running" => Cardinality(DOMAIN hostMappings) >= 1
    /\ lastLoad.err = "nil" /\ lastLoad.by # "none" =>
          Cardinality(DOMAIN installed) >= 1

\* C9 witness: the watcher's load of a file without hosts failed while the
\* process is running
C9_Witness ==
    /\ main = "running"
    /\ lastLoad = [by |-> "watcher", err |-> "nohosts"]
    /\ file.kind = "file" /\ file.content = cfgEmpty

\* C10: a tick that finds the remembered modification time does no load and
\* changes no state; a load is only begun for a time that differs, and when
\* it succeeds the watcher remembers that time, so later ticks that find it
\* cause no further reload.
C10_ReloadOnlyOnChange ==
    /\ [](wpc = "loading" => modTime # prevModTime)
    /\ [][/\ (WatchTick /\ file.kind = "file" /\ file.mtime = prevModTime) =>
                UNCHANGED vars
          /\ (wpc = "polling" /\ wpc' = "loading") =>
                /\ file.mtime # prevModTime
                /\ modTime' = file.mtime
          /\ (WatchLoad /\ loadError(file) = "nil") =>
                /\ prevModTime' = modTime
                /\ hostMappings' = tempMapping(file.content.hosts)]_vars

\* C10 witness: the watcher reloaded the modified file and remembers its
\* time, the file has not changed since
C10_Witness ==
    /\ wpc = "polling"
    /\ lastLoad = [by |-> "watcher", err |-> "nil"]
    /\ file.kind = "file" /\ file.mtime = prevModTime /\ prevModTime > 0
    /\ Mapping(hostMappings) = Mapping(tempMapping(file.content.hosts))

\* the last load was the watcher's and it failed
watcherFailed == lastLoad.by = "watcher" /\ lastLoad.err # "nil"

\* C11: a failed load of the watcher leaves the remembered modification time
\* as it was, so every following tick that finds the file begins a load
\* again; the load of a valid file then installs its table and the watcher
\* remembers the time of that file.
C11_FailedReloadRetried ==
    /\ [](watcherFailed /\ wpc = "polling" /\ file.kind # "missing" =>
            file.mtime # prevModTime)
    /\ [][/\ (WatchLoad /\ loadError(file) # "nil") =>
                /\ prevModTime' = prevModTime
                /\ wpc' = "polling"
          /\ (WatchTick /\ watcherFailed /\ file.kind # "missing") =>
                /\ wpc' = "loading"
                /\ modTime' = file.mtime
          /\ (WatchLoad /\ watcherFailed /\ loadError(file) = "nil") =>
                /\ hostMappings' = tempMapping(file.content.hosts)
                /\ prevModTime' = modTime
                /\ lastLoad'.err = "nil"]_vars

\* C11 witness: the watcher's load of the broken file failed and the next
\* tick has begun to load the same file again
C11_Witness ==
    /\ watcherFailed /\ lastLoad.err = "parse"
    /\ wpc = "loading"
    /\ file.kind = "file" /\ file.content = cfgNotJSON
    /\ modTime = file.mtime /\ prevModTime # modTime

\* C12: once the context is cancelled the running watcher returns; a load
\* that is in progress at that moment is completed first, and a watcher that
\* has returned neither stats nor loads again.
C12_CancelledWatcherReturns ==
    /\ (cancelled /\ wpc \in {"polling", "loading"}) ~> (wpc = "returned")
    /\ [][/\ (cancelled /\ wpc = "loading" /\ wpc' # "loading") =>
                /\ wpc' = "polling"
                /\ lastLoad' = [by |-> "watcher", err |-> loadError(file)]
                /\ hostMappings' = loadConfigFile(hostMappings, file)
          /\ wpc = "returned" =>
                /\ UNCHANGED <<wpc, prevModTime, modTime>>
                /\ lastLoad' # lastLoad => lastLoad'.by = "call"]_vars

\* C12 witness: the watcher has loaded, was cancelled and has returned, and
\* the file that changed afterwards is not loaded
C12_Witness ==
    /\ cancelled /\ wpc = "returned"
    /\ lastLoad.by = "watcher"
    /\ file.kind = "file" /\ file.mtime # prevModTime

\* C13: LoadConfig of the file a successful SaveConfig wrote returns a
\* configuration with the host keys, the target URL strings and the scalar
\* settings of the configuration that was saved.
C13_SaveLoadRoundTrip ==
    [][(LoadSaved /\ file = saved.after) =>
          /\ lastLoad'.err = "nil"
          /\ DOMAIN hostMappings' = DOMAIN saved.hosts
          /\ \A k \in DOMAIN saved.hosts :
                UrlString(hostMappings'[k].target) = UrlString(saved.hosts[k])
          /\ conf' = saved.conf]_vars

\* C14: SaveConfig renames the temporary file over the destination only when
\* it holds the complete JSON and has mode 600; a call that fails at any step
\* leaves the destination as it was; no temporary file remains when the call
\* has returned; after a successful call the destination has mode 600; no
\* step of SaveConfig changes the configuration in memory.
C14_SaveIsAtomic ==
    /\ [](spc = "idle" => tmpFile.kind = "missing")
    /\ [](saved.err = "nil" /\ file = saved.after =>
            /\ file.kind = "file"
            /\ file.mode = 600
            /\ file.content.json)
    /\ [][SaveStep =>
            /\ UNCHANGED <<hostMappings, conf>>
            /\ (spc' # "idle" \/ saved'.err # "nil") => file' = file
            /\ (spc' = "idle" /\ saved'.err = "nil") =>
                  /\ tmpFile.content = configData
                  /\ tmpFile.mode = 600
                  /\ file'.content = configData
                  /\ file'.mode = 600]_vars

\* C14 witness: the rename over a directory failed, the directory is still
\* there and the temporary file is gone
C14_Witness ==
    /\ saved.err = "rename"
    /\ spc = "idle"
    /\ file.kind = "dir"
    /\ tmpFile.kind = "missing"

\* a step that runs loadConfigFile on the file, for a new or for the live
\* configuration
LoadStep ==
    \/ main = "start" /\ LoadConfigFrom("reprox.json")
    \/ LoadSaved
    \/ Reload

\* a file that has neither max_requests nor window_size
omitsLimits(f) ==
    /\ f.kind = "file"
    /\ f.content.max_requests = Absent
    /\ f.content.window_size = Absent

\* C15: every successful load of a file without max_requests and
\* window_size, the first into a new configuration as well as a later one
\* into a configuration that is already loaded, sets MaxRequests to 100 and
\* WindowSize to 60 seconds.
C15_DefaultsIdempotent ==
    [][(LoadStep /\ omitsLimits(file) /\ lastLoad'.err = "nil") =>
          /\ conf'.MaxRequests = 100
          /\ conf'.WindowSize = 60 * Second]_vars

\* C15 witness: the file that main loaded, which sets neither field and has
\* not been written since, was loaded a second time
C15_Witness ==
    /\ lastLoad = [by |-> "call", err |-> "nil"]
    /\ omitsLimits(file) /\ file.mtime = 0
    /\ conf.MaxRequests = 100
    /\ conf.WindowSize = 60 * Second

\* a file with valid hosts whose max_requests is zero or negative
nonPositiveMax(f) ==
    /\ f.kind = "file" /\ f.content.json
    /\ DOMAIN f.content.hosts # {}
    /\ \A k \in DOMAIN f.content.hosts :
          f.content.hosts[k] \in {"http://b1:80", "https://b2:443", "HTTP://b3:80"}
    /\ UintOK(f.content.window_size)
    /\ f.content.max_requests # Absent
    /\ f.content.max_requests[1] <= 0

\* C16: a load of a file with valid hosts and a max_requests of zero or less
\* succeeds and sets MaxRequests to 100.
C16_NonPositiveMaxIsDefault ==
    [][(LoadStep /\ nonPositiveMax(file)) =>
          /\ lastLoad'.err = "nil"
          /\ conf'.MaxRequests = 100]_vars

\* C17: a request whose host has an entry with neither pipeline nor target
\* URL is answered 500; it is sent to no backend, no pipeline is built and
\* the table stays as it is.
C17_MissingTargetIs500 ==
    /\ [](\A r \in Reqs :
            req[r].pc = "serve" => req[r].proxy.target # NilURL)
    /\ [][\A r \in Reqs :
            (ServeStore(r) /\ req[r].target = tHostConfig(NilURL, NilProxy)) =>
                /\ resp'.host = req[r].host
                /\ resp'.written = <<500>>
                /\ resp'.sent = 0
                /\ resp'.sentTo = NilURL
                /\ req'[r].pc = "idle"
                /\ UNCHANGED <<hostMappings, nProxy>>]_vars

\* C17 witness: the request for the host without target got 500 and the
\* entry is as it was
C17_Witness ==
    /\ resp.status = 500
    /\ ToLower(resp.host) = hEx
    /\ hostMappings[hEx] = tHostConfig(NilURL, NilProxy)

failingInput(aFilename) ==
    \/ aFilename = ""
    \/ file.kind \in {"missing", "dir"}
    \/ ~file.content.json
    \/ DOMAIN file.content.hosts = {}
    \/ otherScheme(file)

\* a configuration with every host of the file and every setting filled in
complete(aTable, aConf) ==
    /\ DOMAIN aTable = DOMAIN file.content.hosts
    /\ \A k \in DOMAIN aTable :
          /\ aTable[k].target # NilURL
          /\ aTable[k].target.scheme \in {"http", "https"}
    /\ aConf.AccessLog # "" /\ aConf.ErrorLog # ""
    /\ aConf.TLSCertFile # "" /\ aConf.TLSKeyFile # ""
    /\ aConf.MaxRequests > 0 /\ aConf.WindowSize > 0

\* C19: LoadConfig returns either nil and an error or a configuration and no
\* error; it returns nil and an error for every failing input, and a
\* configuration it returns holds every host of the file and every setting.
C19_LoadConfigAllOrNothing ==
    /\ [](result = "nil" =>
            /\ lastLoad.by = "main" /\ lastLoad.err # "nil"
            /\ main = "fatal")
    /\ [](result = "pc" /\ lastLoad.by = "main" => lastLoad.err = "nil")
    /\ [][\A n \in FileNames :
            (main = "start" /\ LoadConfigFrom(n)) =>
                /\ result' \in {"nil", "pc"}
                /\ result' = "nil" <=> lastLoad'.err # "nil"
                /\ failingInput(n) => result' = "nil"
                /\ result' = "pc" => complete(hostMappings', conf')
                /\ (n # "" /\ file.kind = "file" /\ file.content \in ValidContents)
                      => result' = "pc"]_vars

\* C19 witness: LoadConfig of a file with a target of another scheme
\* returned nil and an error
C19_Witness ==
    /\ result = "nil"
    /\ lastLoad = [by |-> "main", err |-> "scheme"]
    /\ otherScheme(file)

\* C20: WatchConfigFile called with a nil configuration returns at once: it
\* never polls or loads, remembers no modification time and changes nothing
\* but its own position.
C20_NilConfigIsNoOp ==
    /\ [](result = "nil" =>
            /\ wpc \in {"init", "returned"}
            /\ prevModTime = 0 /\ modTime = 0
            /\ hostMappings = EmptyMap /\ conf = ZeroConf)
    /\ [][(WatchStart /\ result = "nil") =>
            /\ wpc' = "returned"
            /\ UNCHANGED <<file, hostMappings, main, prevModTime, modTime,
                           cancelled, reqVars, installed, lastLoad, conf,
                           result, saveVars, mu, lockVars, closedIdle, callVars>>]_vars

\* C20 witness: the watcher was called with the nil configuration of a
\* failed LoadConfig and has returned, although the file exists
C20_Witness ==
    /\ result = "nil"
    /\ wpc = "returned"
    /\ file.kind = "file"

\* C22: a load of the live configuration that fails at any step (stat,
\* directory, JSON, missing hosts, URL, scheme) changes neither the host
\* table nor AccessLog, ErrorLog, TLSCertFile, TLSKeyFile, MaxRequests and
\* WindowSize.
C22_FailedLoadKeepsAllFields ==
    [][(ReloadStep /\ lastLoad'.err # "nil") =>
          /\ hostMappings' = hostMappings
          /\ conf' = conf]_vars

\* C22 witness: the reload of a file that sets every field and has a target
\* with a refused scheme failed, and the configuration still has the
\* defaults of the file loaded before
C22_Witness ==
    /\ main = "running"
    /\ lastLoad = [by |-> "call", err |-> "scheme"]
    /\ file.kind = "file" /\ file.content = cfgFtpFull
    /\ conf.MaxRequests = DefaultMaxRequests
    /\ conf.AccessLog = "/cwd/access.reprox.log"
    /\ DOMAIN hostMappings # {}
\* the watcher returns in this step
watcherReturns == wpc # "returned" /\ wpc' = "returned"

\* C29 as stated: a watcher with a configuration returns only when it is
\* cancelled or when the stat before the loop fails; a directory path does
\* not end it.
C29_ReturnsOnlyOnCancelOrStatError ==
    [][(watcherReturns /\ ~nilConfig(result)) =>
          \/ wpc = "polling" /\ cancelled
          \/ wpc = "init" /\ file.kind = "missing"]_vars

\* C29 amended: a watcher with a configuration returns only when it is
\* cancelled, or before the loop when the stat fails or the name is that of
\* a directory, and in both start-up cases it does return at once; in the
\* loop neither a directory, a failed stat nor a failed reload ends it.
C29_ReturnsOnCancelOrAtStartup ==
    /\ [][(watcherReturns /\ ~nilConfig(result)) =>
             \/ wpc = "polling" /\ cancelled
             \/ wpc = "init" /\ file.kind \in {"missing", "dir"}]_vars
    /\ [][(WatchStart /\ file.kind \in {"missing", "dir"}) =>
             wpc' = "returned"]_vars
    /\ [][(wpc \in {"polling", "loading"} /\ ~cancelled) =>
             wpc' \in {"polling", "loading"}]_vars

\* C29 witness: the watcher of a loaded configuration returned before the
\* loop because the name is that of a directory; nothing was cancelled
C29_Witness ==
    /\ wpc = "returned"
    /\ result = "pc"
    /\ file.kind = "dir"
    /\ ~cancelled
    /\ lastLoad.by = "main"

\* C30: a tick whose stat fails performs no load, changes neither the
\* configuration nor the remembered modification time and leaves the watcher
\* polling; a tick whose stat succeeds goes on to load exactly when the
\* modification time differs from the remembered one, whether or not the
\* file was missing before.
C30_StatErrorOnTickIsSkipped ==
    /\ [][(WatchTick /\ file.kind = "missing") =>
             /\ wpc' = "polling"
             /\ hostMappings' = hostMappings /\ conf' = conf
             /\ prevModTime' = prevModTime
             /\ lastLoad' = lastLoad]_vars
    /\ [][(WatchTick /\ file.kind # "missing") =>
             (wpc' = "loading" <=> file.mtime # prevModTime)]_vars

\* C30 witness: the watcher has reloaded the file once, later the file was
\* written and removed, and the watcher is polling: its tick in this state
\* is one whose stat fails while the time differs from the remembered one
C30_Witness ==
    /\ wpc = "polling"
    /\ lastLoad = [by |-> "watcher", err |-> "nil"]
    /\ file.kind = "missing"
    /\ file.mtime # prevModTime
    /\ hostMappings # EmptyMap
\* C23: while no reload happens, an entry that holds a pipeline keeps that
\* pipeline instance in every step of every interleaving of requests.
C23_OnePipelinePerHost ==
    [][\A k \in DOMAIN hostMappings :
          hostMappings[k].destProxy # NilProxy =>
              /\ k \in DOMAIN hostMappings'
              /\ hostMappings'[k].destProxy = hostMappings[k].destProxy]_vars
\* C27: while SaveConfig is between os.CreateTemp and os.Rename it holds the
\* mutex neither for reading nor for writing, so a Lock() of a reload
\* returns at once.
C27_SaveHoldsNoLockOnDisk ==
    spc \in {"created", "written", "closed", "chmodded"} =>
        /\ Saver \notin mu.readers
        /\ mu.writer # Saver
        /\ canLock(mu)
\* C24: a SaveConfig call that has read the table and the settings inside
\* its read-locked part has both from one load, and they are the settings
\* that load computed, whatever other calls read at the same time; table and
\* settings are from different loads only while a load holds the write lock.
C24_InstallIsOneCriticalSection ==
    /\ \A i \in Readers : rd[i].pc = "read" =>
          /\ rd[i].table = rd[i].conf
          /\ rd[i].hosts = Mapping(tempMapping(rd[i].table.hosts))
          /\ rd[i].settings = scalars(Unmarshal(rd[i].conf))
    /\ origin.table # origin.conf => mu.writer = Loader

\* C24 witness: two SaveConfig calls hold the read lock, one has read the
\* table and the settings that a reload of cfgFull installed, and the next
\* reload has read cfgB and waits for the write lock
C24_Witness ==
    /\ \E i \in Readers : /\ rd[i].pc = "read"
                          /\ rd[i].table = cfgFull
                          /\ rd[i].settings.MaxRequests = 150
    /\ Cardinality(mu.readers) = 2
    /\ lastLoad = [by |-> "call", err |-> "nil"]
    /\ lpc = "read" /\ fconf.content = cfgB
\* C25: a ServeHTTP call whose pipeline is forwarding holds the mutex
\* neither for writing nor for reading, so it keeps no Lock() of a reload
\* and no RLock() of another request's lookup from returning.
C25_NoLockWhileForwarding ==
    \A r \in Reqs : req[r].pc = "serve" =>
        /\ mu.writer # Server(r)
        /\ Server(r) \notin mu.readers
        /\ (\A q \in Reqs : req[q].pc \in {"idle", "build", "serve"}) =>
              (lpc \in {"idle", "stat", "read"} => canLock(mu))

\* C25 witness: while the pipeline of one request forwards, a reload holds
\* the write lock and has assigned the new table
C25_Witness ==
    \E r \in Reqs :
        /\ req[r].pc = "serve"
        /\ mu.writer = Loader
        /\ lpc = "table"
        /\ origin.table # origin.conf

\* the stat and the read of loadConfigFile
loadIO == LoadStat \/ LoadRead

\* C26: the stat and the read of a load are done without the write lock;
\* the load holds the write lock only between Lock() and the end of the
\* assignments, where it works on what it has read; when it has returned,
\* with or without an error, it does not hold the lock.
C26_FileReadBeforeLock ==
    /\ [][loadIO => (mu.writer # Loader /\ mu'.writer # Loader)]_vars
    /\ [](mu.writer = Loader <=> lpc \in {"locked", "table"})
    /\ [][(mu.writer = Loader /\ lpc' # lpc) => file' = file]_vars
    /\ [][(lpc # "idle" /\ lpc' = "idle") => mu'.writer # Loader]_vars

\* C26 witness: a load of a file with a refused scheme has returned its
\* error from inside the loop, and nobody holds the mutex
C26_Witness ==
    /\ lastLoad = [by |-> "call", err |-> "scheme"]
    /\ lpc = "idle"
    /\ mu = NoLock
    /\ file.content = cfgFtpFull

\* C28: a step that changes the table or a setting is a load's assignment
\* with the load as the writer of the mutex, or a request's store with that
\* request as the writer; at most one request is between Lock() and
\* Unlock().
C28_WritesUnderWriteLock ==
    /\ [][(hostMappings' # hostMappings \/ conf' # conf) =>
             \/ (LoadBuild \/ LoadFinish) /\ mu.writer = Loader
             \/ \E r \in Reqs : ServeLocked(r) /\ mu.writer = Server(r)]_vars
    /\ [](\A r \in Reqs : req[r].pc = "locked" <=> mu.writer = Server(r))
    /\ [](Cardinality({r \in Reqs : req[r].pc = "locked"}) <= 1)

\* C28 witness: one request holds the write lock for its store while another
\* request for the same host waits for it, after a reload
C28_Witness ==
    \E r, q \in Reqs :
        /\ req[r].pc = "locked" /\ mu.writer = Server(r)
        /\ req[q].pc = "build"
        /\ lastLoad = [by |-> "call", err |-> "nil"]
\* C21: a CloseIdleConnections call calls the transport of exactly those
\* entries that hold a pipeline whose transport is an *http.Transport or has
\* a CloseIdleConnections method; entries without pipeline and pipelines
\* with another transport are passed over, and the table with its pipelines
\* is the same after the call.
C21_CloseIdleIsBestEffort ==
    [][CloseIdleConnections =>
          /\ closedIdle'.done
          /\ \A k \in DOMAIN hostMappings :
                LET p == hostMappings[k].destProxy IN
                (p.id \in closedIdle'.ids) <=>
                    (p # NilProxy /\ p.transport \in {"http.Transport", "closer"})
          /\ closedIdle'.ids \subseteq
                {hostMappings[k].destProxy.id : k \in DOMAIN hostMappings}
          /\ hostMappings' = hostMappings]_vars

\* C21 witness: the call closed the idle connections of the two mock
\* transports and of the pipeline a request built, and passed over the
\* pipeline with a transport that cannot and the entry without pipeline
C21_Witness ==
    /\ closedIdle = [done |-> TRUE, ids |-> {1, 11, 12}]
    /\ hostMappings[hTe].destProxy.id = 1
    /\ hostMappings[hPl].destProxy = mockProxy(13, "plain")
    /\ hostMappings[hNo].destProxy = NilProxy
\* ------------------------------------------------------------------------
\* The director on its own: a pipeline for a target, applied to a request

progVars == <<file, hostMappings, main, wpc, prevModTime, modTime, cancelled,
              req, nProxy, resp, installed, lastLoad, conf, result, saveVars,
              mu, lockVars, closedIdle>>

\* the quiescent program the calls below run beside
InitQuiet ==
    /\ file = NoFile("missing", 0)
    /\ hostMappings = EmptyMap
    /\ conf = ZeroConf
    /\ result = "pc"
    /\ main = "running"
    /\ installed = Mapping(EmptyMap)
    /\ lastLoad = [by |-> "none", err |-> "nil"]
    /\ origin = loadedFrom(cfgNotJSON)
    /\ InitRest

TargetURLs == {NilURL, validTarget, [scheme |-> "https", host |-> "b2:443"]}
Queries == {"", "a=1"}
RawQueries == {"", "b=2"}

Requests ==
    [scheme : {"", "http"}, host : {"", "ex"}, path : {"/", "/p"},
     query : RawQueries, Host : {"Ex", "te"}]

InitDirector ==
    /\ rewritten \in {[target |-> t, query |-> q, done |-> FALSE,
                       before |-> rq, after |-> rq] :
                          t \in TargetURLs, q \in Queries, rq \in Requests}
    /\ created = NoCreate
    /\ InitQuiet

\* proxy.Director(aRequest)
Director ==
    /\ ~ rewritten.done
    /\ rewritten' = [rewritten EXCEPT
                        !.done = TRUE,
                        !.after = directorRewrite(rewritten.target,
                                                  rewritten.query,
                                                  rewritten.before)]
    /\ UNCHANGED <<progVars, created, limiter>>

NextDirector == Director

SpecDirector == InitDirector /\ [][NextDirector]_vars

\* C31: the director of a pipeline for target T sets the request's URL
\* scheme and host to T's and its Host header to T's host; the query is the
\* request's when T has none, T's when the request has none, T's then "&"
\* then the request's when both are non-empty; the path is left unchanged.
C31_DirectorRewrites ==
    (rewritten.done /\ rewritten.target # NilURL) =>
        LET T == rewritten.target
            tq == rewritten.query
            rq == rewritten.before.query
            out == rewritten.after
        IN /\ out.scheme = T.scheme
           /\ out.host = T.host
           /\ out.Host = T.host
           /\ out.path = rewritten.before.path
           /\ (tq = "" => out.query = rq)
           /\ (rq = "" => out.query = tq)
           /\ (tq # "" /\ rq # "" => out.query = tq \o "&" \o rq)

C31_Witness ==
    /\ rewritten.done
    /\ rewritten.target = validTarget
    /\ rewritten.query = "a=1"
    /\ rewritten.before.query = "b=2"
    /\ rewritten.before.path = "/p"
    /\ rewritten.after.query = "a=1&b=2"
    /\ rewritten.after.Host = "b1:80"

\* ------------------------------------------------------------------------
\* createReverseProxy on its own: goroutines calling it on one argument

existingProxy == mockProxy(11, "closer")

Arguments ==
    {NilTarget} \cup
    {AddressOf(tHostConfig(t, p)) :
        t \in TargetURLs,
        p \in {NilProxy, existingProxy, mockProxy(12, "closer"),
               mockProxy(13, "plain")}}

InitCreate ==
    /\ created \in {[NoCreate EXCEPT !.arg = a] : a \in Arguments}
    /\ rewritten = NoRewrite
    /\ InitQuiet

\* the pipeline that the call of goroutine c allocates
newId(c) == MaxBuilds + c

\* mutant: the new pipeline is cached in the argument
Create_cache(c) ==
    /\ created.out[c] = <<>>
    /\ LET res == createReverseProxy(created.arg, newId(c)) IN
       created' = [created EXCEPT
                      !.out[c] = <<res>>,
                      !.arg = IF @ # NilTarget /\ ~ res.err
                              THEN AddressOf([@[1] EXCEPT !.destProxy = res.proxy])
                              ELSE @]
    /\ UNCHANGED <<progVars, rewritten, limiter>>

\* proxy, err := createReverseProxy(target) in goroutine c
Create(c) ==
    /\ created.out[c] = <<>>
    /\ created' = [created EXCEPT
                      !.out[c] = <<createReverseProxy(created.arg, newId(c))>>]
    /\ UNCHANGED <<progVars, rewritten, limiter>>

NextCreate == \E c \in Callers : Create(c)

SpecCreate == InitCreate /\ [][NextCreate]_vars

\* C32: createReverseProxy returns the cached instance when the argument has
\* one; otherwise a new pipeline when the target URL is present; a nil
\* pipeline with an error when the argument is nil or its target URL is nil.
\* It modifies neither its argument nor the table, also when goroutines call
\* it concurrently on the same argument.
C32_CreateReturnsAndKeepsArgument ==
    [][\A c \in Callers :
        (created.out[c] = <<>> /\ created'.out[c] # <<>>) =>
            LET a == created.arg
                res == created'.out[c][1]
            IN /\ created'.arg = a
               /\ hostMappings' = hostMappings
               /\ IF a # NilTarget /\ a[1].destProxy # NilProxy
                  THEN res.proxy = a[1].destProxy /\ ~ res.err
                  ELSE IF a # NilTarget /\ a[1].target # NilURL
                  THEN /\ ~ res.err
                       /\ res.proxy # NilProxy
                       /\ res.proxy.target = a[1].target
                       /\ \A o \in Callers \ {c} :
                             created.out[o] # <<>> =>
                                created.out[o][1].proxy # res.proxy
                  ELSE res.proxy = NilProxy /\ res.err]_vars

C32_Witness ==
    /\ created.arg = AddressOf(tHostConfig(validTarget, NilProxy))
    /\ \A c \in Callers :
          /\ created.out[c] # <<>>
          /\ created.out[c][1].proxy.target = validTarget
    /\ \A c, o \in Callers :
          c # o => created.out[c][1].proxy # created.out[o][1].proxy

\* ------------------------------------------------------------------------
\* Files whose host names are not written in lowercase

hUp == <<"E", "x">>

cfgUpper == Cfg([k \in {hUp} |-> "http://b1:80"])
cfgMixed == Cfg([k \in {hUp, hTe} |-> IF k = hUp THEN "http://b1:80" ELSE "https://b2:443"])

KeyContents == {cfgA, cfgUpper, cfgMixed}

InitKeys ==
    /\ file \in {NewFile(c, 0) : c \in KeyContents}
    /\ hostMappings = EmptyMap
    /\ conf = ZeroConf
    /\ result = "none"
    /\ main = "start"
    /\ installed = Mapping(EmptyMap)
    /\ lastLoad = [by |-> "none", err |-> "nil"]
    /\ origin = loadedFrom(cfgNotJSON)
    /\ rewritten = NoRewrite
    /\ created = NoCreate
    /\ InitRest

NextKeys ==
    \/ LoadConfig
    \/ \E c \in KeyContents : WriteFile(c)
    \/ Reload
    \/ \E r \in Reqs : ServeLookup(r, hUp)
    \/ \E r \in Reqs : ServeStore(r)
    \/ \E r \in Reqs, b \in BOOLEAN : ServeForward(r, b)

SpecKeys == InitKeys /\ [][NextKeys]_vars

\* C33: after any successful load every key of the host table is lowercase,
\* so that every host of the table is found by the lookup with the
\* lowercased name.
C33_KeysAreLowercase ==
    \A k \in DOMAIN hostMappings :
        /\ ToLower(k) = k
        /\ getTarget(hostMappings, requestedHost(k)).ok

\* ------------------------------------------------------------------------
\* Requests for one host while reloads give that host another target

RetargetContents == {cfgA, cfgC}

InitRetarget ==
    /\ file \in {NewFile(c, 0) : c \in RetargetContents}
    /\ hostMappings = tempMapping(file.content.hosts)
    /\ conf = scalars(Unmarshal(file.content))
    /\ result = "pc"
    /\ main = "running"
    /\ installed = Mapping(hostMappings)
    /\ lastLoad = [by |-> "main", err |-> "nil"]
    /\ origin = loadedFrom(file.content)
    /\ rewritten = NoRewrite
    /\ created = NoCreate
    /\ InitRest

NextRetarget ==
    \/ \E c \in RetargetContents : WriteFile(c)
    \/ Reload
    \/ \E r \in Reqs, h \in RacingHosts : ServeLookup(r, h)
    \/ \E r \in Reqs : ServeStore(r)
    \/ \E r \in Reqs, b \in BOOLEAN : ServeForward(r, b)

SpecRetarget == InitRetarget /\ [][NextRetarget]_vars

\* C34: every entry of the table that holds a cached pipeline holds a
\* pipeline built from the target URL stored in that same entry, whatever the
\* interleaving of lazy stores and reloads.
C34_CachedPipelineMatchesEntry ==
    \A k \in DOMAIN hostMappings :
        hostMappings[k].destProxy # NilProxy =>
            hostMappings[k].destProxy.target = hostMappings[k].target

\* a request looked the host up, a reload gave the host another target, and
\* then the request stored its entry
C34_Witness ==
    /\ hEx \in DOMAIN hostMappings
    /\ hostMappings[hEx].destProxy # NilProxy
    /\ hostMappings[hEx].target # installed[hEx]
    /\ lastLoad.by = "call"

\* C35: a request that ServeHTTP forwards goes to the target URL stored for
\* its lowercased Host when it was looked up; no request goes to the
\* director's fallback https://www.cia.gov.
C35_ForwardedToStoredTarget ==
    resp.sent > 0 =>
        /\ resp.stored # NilURL
        /\ resp.sentTo = resp.stored
        /\ resp.sentTo # FallbackURL

\* a request forwarded through a pipeline cached before the last reload
C35_Witness ==
    /\ resp.sent > 0
    /\ resp.sentTo = validTarget
    /\ resp.sentTo # installed[hEx]
    /\ ~ resp.fresh
    /\ lastLoad.by = "call"

\* ------------------------------------------------------------------------
\* Start-up: LoadConfig, then the watcher, while the file is rewritten with
\* a new modification time each time and nothing else reloads

NextStartup ==
    \/ \E c \in Contents : WriteFile(c)
    \/ LoadConfig
    \/ WatchStart
    \/ WatchTick
    \/ WatchLoad
    \/ Cancel
    \/ WatchDone

SpecStartup == Init /\ [][NextStartup]_vars

\* the mapping a load of the file would install
fileMapping == Mapping(tempMapping(file.content.hosts))

\* C36: when the file holds valid content and is modified no more, a running
\* watcher eventually makes the live mapping equal to the file's mapping,
\* also for a modification made after LoadConfig read the file and before
\* the watcher recorded its first modification time. For a finite run: while
\* the watcher polls and the live mapping differs from the mapping of the
\* valid file, the watcher's next tick finds the file changed.
C36_PendingChangeIsSeen ==
    ( /\ wpc = "polling"
      /\ ~ cancelled
      /\ file.kind = "file"
      /\ loadError(file) = "nil"
      /\ Mapping(hostMappings) # fileMapping )
    => changed(file, prevModTime)

\* ------------------------------------------------------------------------
\* main(): the rate limiter wraps the handler once

\* maxReq := uint(0); if 0 < proxyConfig.MaxRequests { maxReq = ... }
maxReq(aMaxRequests) == IF 0 < aMaxRequests THEN aMaxRequests ELSE 0

\* mutant: the limiter is wrapped again with the fields of the live
\* configuration
RateLimitWrap_again ==
    /\ main = "running"
    /\ limiter' = [wrapped |-> TRUE, maxReq |-> maxReq(conf.MaxRequests),
                   window |-> conf.WindowSize]
    /\ UNCHANGED <<progVars, rewritten, created>>

\* handler, getMetrics = ratelimit.Wrap(handler, maxReq, proxyConfig.WindowSize)
RateLimitWrap ==
    /\ main = "running"
    /\ ~ limiter.wrapped
    /\ limiter' = [wrapped |-> TRUE, maxReq |-> maxReq(conf.MaxRequests),
                   window |-> conf.WindowSize]
    /\ UNCHANGED <<progVars, rewritten, created>>

\* The watcher's ticker fires for the first time one interval (a minute)
\* after the goroutine began; main() has wrapped the handler by then.
NextLimit ==
    \/ \E c \in ScalarContents : WriteFile(c)
    \/ LoadConfig
    \/ WatchStart
    \/ RateLimitWrap
    \/ limiter.wrapped /\ WatchTick
    \/ WatchLoad

SpecLimit == InitSave /\ [][NextLimit]_vars

\* C37: the rate limiter gets its parameters once, MaxRequests and
\* WindowSize of the configuration that LoadConfig loaded at start-up; no
\* later step, in particular no successful reload that changes the fields of
\* the live configuration, changes the limiter's parameters.
C37_LimiterKeepsStartupParameters ==
    [][ /\ (~ limiter.wrapped /\ limiter'.wrapped) =>
              /\ lastLoad = [by |-> "main", err |-> "nil"]
              /\ limiter'.maxReq = conf.MaxRequests
              /\ limiter'.window = conf.WindowSize
        /\ limiter.wrapped => limiter' = limiter ]_vars

\* the watcher has reloaded other limits than those the limiter was given
C37_Witness ==
    /\ limiter.wrapped
    /\ lastLoad = [by |-> "watcher", err |-> "nil"]
    /\ conf.MaxRequests # limiter.maxReq
    /\ conf.WindowSize # limiter.window

\* ------------------------------------------------------------------------
\* window_size over the whole range of the uint field

\* the window_size in seconds that a load of aContent asks for
windowSeconds(aContent) ==
    IF UintField(aContent.window_size) = 0
    THEN DefaultWindowSize
    ELSE UintField(aContent.window_size)

\* C38: for every window_size that the uint field can hold, a successful
\* load stores a positive WindowSize of exactly window_size seconds (60
\* seconds when it is 0 or absent), without wrap-around, and SaveConfig
\* writes that window_size back.
C38_WindowSizeNeverWraps ==
    [][ /\ (LoadStep /\ lastLoad'.err = "nil") =>
              /\ conf'.WindowSize > 0
              /\ conf'.WindowSize = windowSeconds(file.content) * Second
        /\ (spc = "idle" /\ spc' = "created") =>
              configData'.window_size = <<windowSeconds(origin.conf)>> ]_vars

====
